---- MODULE Spec2Model ----
(***************************************************************************)
(* Model of the artifact/document tools (createDocument, updateDocument,   *)
(* requestSuggestions), the document handler registry, the document store  *)
(* queries, the editor transaction handler and the message reconciliation  *)
(* functions of the agile-coach chat application.                          *)
(***************************************************************************)
EXTENDS Integers, Sequences, FiniteSets, TLC

\* ------------------------------------------------------------------------
\* Bounds of the model
\* ------------------------------------------------------------------------
MaxInvocations == 2   \* tool invocations that write to the one data stream
MaxDeltas == 1        \* progress events one strategy callback streams
MaxSuggestions == 2   \* elements the model's element stream yields
MaxTransactions == 2  \* transactions the editor view dispatches
MaxDocLen == 3        \* characters of the editor document
MaxBatch == 2         \* messages of a batch handed to a sanitizer
MaxStored == 3        \* stored messages convertToUIMessages folds
MaxLeaves == 3        \* text leaves of a document being projected
MaxSaves == 3         \* saveDocument calls made on one store
MaxVoters == 2        \* voteMessage calls that run at the same time
MaxDeletes == 1       \* deleteDocumentsByIdAfterTimestamp calls made on one store
MaxAnchorCalls == 1   \* requestSuggestions calls that run beside a save and a delete
MaxAnchorSaves == 1   \* saveDocument calls that run beside requestSuggestions and a delete
MaxAnchorElements == 1  \* elements the element stream yields beside a delete
MaxListed == 2        \* documents of a list handed to getDocumentTimestampByIndex

\* ------------------------------------------------------------------------
\* Input domains
\* ------------------------------------------------------------------------
Titles == {"Notes"}         \* titles createDocument is asked for
RequestedKinds == {"code"}  \* kinds createDocument is asked for
Drafts == {"draft"}         \* contents a strategy callback returns
NoUser == "anonymous"
Users == {"user1"}
NoId == "none"
NoDraft == "<pending>"       \* draftContent before the callback has returned

\* artifactKinds: the kinds the createDocument parameter schema accepts
artifactKinds == {"text", "code", "image", "sheet"}

\* documentHandlersByArtifactKind: the kind of each registered handler, in
\* array order
documentHandlersByArtifactKind == <<"text", "code", "image", "sheet">>

\* Array.prototype.find over the registry: index of the first handler whose
\* kind is the requested one, 0 for undefined
FindHandler_FirstWhenNone(kind) ==
  LET hits == {h \in 1..Len(documentHandlersByArtifactKind) :
                 documentHandlersByArtifactKind[h] = kind}
  IN IF hits = {} THEN 1 ELSE CHOOSE h \in hits : \A g \in hits : h <= g

FindHandler(kind) ==
  LET hits == {h \in 1..Len(documentHandlersByArtifactKind) :
                 documentHandlersByArtifactKind[h] = kind}
  IN IF hits = {} THEN 0 ELSE CHOOSE h \in hits : \A g \in hits : h <= g

Invocations == 1..MaxInvocations

VARIABLES
  session,      \* session.user?.id of the request, NoUser when absent
  now,          \* the value the last new Date() returned
  nextId,       \* number of identifiers generateUUID has produced
  documents,    \* rows of the Document table
  suggestions,  \* rows of the Suggestion table
  dataStream,   \* events written with dataStream.writeData, in order
  task,         \* per invocation: operation, position and local variables
  saveCalls,    \* calls of saveDocument each invocation made, in order
  \* the editor view
  editorLive,        \* editorRef.current is a view (not null)
  editorDoc,         \* editorRef.current.state.doc, its text
  transactions,      \* number of transactions handed to handleTransaction
  lastTransaction,   \* the transaction handed over last
  handleResult,      \* how the last call of handleTransaction ended
  saveContentCalls,  \* calls of onSaveContent, in order
  uiSuggestions,     \* the UISuggestions the decorations were built from
  decorations,       \* suggestionsPlugin state: decorations
  selected,          \* suggestionsPlugin state: selected
  applyTrace,        \* the onApply call running or made last
  \* the message reconciliation functions
  responseMessages,  \* sanitizeResponseMessages: messages
  responseReasoning, \* sanitizeResponseMessages: reasoning
  responseOutput,    \* sanitizeResponseMessages: the value returned
  uiMessages,        \* sanitizeUIMessages: messages
  uiOutput,          \* sanitizeUIMessages: the value returned
  dbMessages,        \* convertToUIMessages: the stored messages folded so far
  chatMessages,      \* convertToUIMessages: the accumulator of the reduce
  \* the suggestion projection
  projDoc,           \* projectWithPositions: doc
  projSuggestions,   \* projectWithPositions: suggestions
  projOutput,        \* projectWithPositions: the value returned
  \* the Vote table
  votes,             \* rows of the Vote table
  voteTask,          \* per caller of voteMessage: position and local variables
  lastCast,          \* per (chatId, messageId): the type of the call made last
  \* the utility functions
  listedDocuments,   \* getDocumentTimestampByIndex: documents
  listedIndex,       \* getDocumentTimestampByIndex: index
  currentDate,       \* getDocumentTimestampByIndex: what new Date() gives
  timestampOutput,   \* getDocumentTimestampByIndex: how the call ended
  selectedChatModel, \* systemPrompt: selectedChatModel
  promptOutput,      \* systemPrompt: the value returned
  \* deleteDocumentsByIdAfterTimestamp
  deleteTask         \* the call running or made last: position and arguments

editorVars == <<editorLive, editorDoc, transactions, lastTransaction, handleResult,
                saveContentCalls, uiSuggestions, decorations, selected,
                applyTrace>>

messageVars == <<responseMessages, responseReasoning, responseOutput,
                 uiMessages, uiOutput, dbMessages, chatMessages>>

projectionVars == <<projDoc, projSuggestions, projOutput>>

docVars == <<session, now, nextId, documents, suggestions, dataStream, task,
             saveCalls>>

voteVars == <<votes, voteTask, lastCast>>

utilVars == <<listedDocuments, listedIndex, currentDate, timestampOutput,
              selectedChatModel, promptOutput>>

deleteVars == <<deleteTask>>

\* what the steps of one part of the program leave alone
notDocVars == <<editorVars, messageVars, projectionVars, voteVars, utilVars,
                deleteVars>>

notDocOrDeleteVars == <<editorVars, messageVars, projectionVars, voteVars,
                        utilVars>>

notEditorVars == <<docVars, messageVars, projectionVars, voteVars, utilVars,
  deleteVars>>

notMessageVars == <<docVars, editorVars, projectionVars, voteVars, utilVars,
  deleteVars>>

notProjectionVars == <<docVars, editorVars, messageVars, voteVars, utilVars,
  deleteVars>>

notVoteVars == <<docVars, editorVars, messageVars, projectionVars, utilVars,
  deleteVars>>

notUtilVars == <<docVars, editorVars, messageVars, projectionVars, voteVars,
  deleteVars>>

\* generateUUID: a fresh identifier
generateUUID == ToString(nextId + 1)

\* a version stored by an earlier request, and the stores a request may
\* start with
OldDocument ==
  [id |-> "doc123", createdAt |-> 0, title |-> "Old", kind |-> "text",
   content |-> "old text", userId |-> "user1"]

InitialStores == {{OldDocument}}

\* identifiers updateDocument and requestSuggestions are asked for
DocIds == {"doc123", "1"}

\* no abort of the request has happened
NoAbort == -1

\* the createdAt of the row an invocation's saveDocument call inserted, before
\* an insert of the invocation has succeeded
NotSaved == -1

IdleTask ==
  [op |-> "none", pc |-> "idle", step |-> 0, id |-> NoId, title |-> "", kind |-> "",
   createdAt |-> 0, draft |-> NoDraft, buffer |-> <<>>,
   saveSuggestionsCalls |-> <<>>, abortedAt |-> NoAbort, savedAt |-> NotSaved,
   result |-> "none"]

\* The tool calls of one model step run concurrently, two at most, and the
\* next step begins when the calls of the step before have all ended.
\* Invocations start in the order of their numbers.
Ended(j) == task[j].pc \in {"done", "failed"}

CanStart(i) ==
  /\ task[i].pc = "idle"
  /\ \A j \in 1..(i - 1) : task[j].pc # "idle"
  /\ \/ \A j \in 1..(i - 1) : Ended(j)
     \/ /\ i > 1
        /\ ~Ended(i - 1)
        /\ \A j \in 1..(i - 2) : task[j].step < task[i - 1].step

\* the model step invocation i belongs to when it starts now
StartStep(i) ==
  IF i = 1 THEN 1
  ELSE IF Ended(i - 1) THEN task[i - 1].step + 1 ELSE task[i - 1].step

\* dataStream.writeData({type, content}) by invocation i
Event(i, type, content) == [inv |-> i, type |-> type, content |-> content]

\* ------------------------------------------------------------------------
\* Document store queries
\* ------------------------------------------------------------------------
\* where(eq(document.id, id)): the rows of one id
VersionsOf(id) == {d \in documents : d.id = id}

\* orderBy(asc(document.createdAt)) of a set of rows; rows of one id differ
\* in createdAt, the primary key being (id, createdAt)
RECURSIVE orderByAsc(_)
orderByAsc(rows) ==
  IF rows = {} THEN <<>>
  ELSE LET first == CHOOSE d \in rows : \A e \in rows : d.createdAt <= e.createdAt
       IN <<first>> \o orderByAsc(rows \ {first})

\* orderBy(desc(document.createdAt)) of a set of rows
RECURSIVE orderByDesc(_)
orderByDesc(rows) ==
  IF rows = {} THEN <<>>
  ELSE LET first == CHOOSE d \in rows : \A e \in rows : e.createdAt <= d.createdAt
       IN <<first>> \o orderByDesc(rows \ {first})

\* getDocumentsById: the versions of one id ordered by createdAt ascending
getDocumentsById(id) == orderByAsc(VersionsOf(id))

\* the first element of an empty array of rows
NoDocument == [id |-> NoId]

\* getDocumentById: the first row of the versions ordered by createdAt
\* descending
getDocumentById_Oldest(id) ==
  LET rows == orderByAsc(VersionsOf(id))
  IN IF rows = <<>> THEN NoDocument ELSE rows[1]

getDocumentById(id) ==
  LET rows == orderByDesc(VersionsOf(id))
  IN IF rows = <<>> THEN NoDocument ELSE rows[1]

\* ------------------------------------------------------------------------
\* createDocument.execute
\* ------------------------------------------------------------------------
\* The bootstrap events createDocument writes before looking for the handler
CreateBootstrap_IdFirst(i, id, title, kind) ==
  << Event(i, "id", id), Event(i, "kind", kind), Event(i, "title", title),
     Event(i, "clear", "") >>

CreateBootstrap_ClearEarly(i, id, title, kind) ==
  << Event(i, "kind", kind), Event(i, "id", id), Event(i, "clear", ""),
     Event(i, "title", title) >>

CreateBootstrap(i, id, title, kind) ==
  << Event(i, "kind", kind), Event(i, "id", id), Event(i, "title", title),
     Event(i, "clear", "") >>

\* execute up to the first suspension: the identifier, the four bootstrap
\* events, the handler lookup and the call of the strategy callback
CreateStart(i, title, kind) ==
  /\ CanStart(i)
  /\ LET id == generateUUID
         h == FindHandler(kind)
     IN /\ nextId' = nextId + 1
        /\ dataStream' = dataStream \o CreateBootstrap(i, id, title, kind)
        /\ task' = [task EXCEPT ![i] =
             IF h = 0
             THEN [@ EXCEPT !.op = "create", !.step = StartStep(i), !.pc = "failed", !.id = id,
                            !.title = title, !.kind = kind, !.result = "threw"]
             ELSE [@ EXCEPT !.op = "create", !.step = StartStep(i), !.pc = "callback", !.id = id,
                            !.title = title,
                            !.kind = documentHandlersByArtifactKind[h]]]
  /\ UNCHANGED <<session, now, documents, suggestions, saveCalls>>
  /\ UNCHANGED notDocVars

\* ------------------------------------------------------------------------
\* updateDocument.execute
\* ------------------------------------------------------------------------
\* execute up to the suspension in the strategy callback: the read of the
\* latest version, the not-found result, the clear event carrying the
\* document's title, the handler lookup and the call of the callback
UpdateClear_Empty(i, document) == Event(i, "clear", "")

UpdateClear(i, document) == Event(i, "clear", document.title)

UpdateStart(i, id) ==
  /\ CanStart(i)
  /\ IF getDocumentById(id) = NoDocument
     THEN /\ task' = [task EXCEPT ![i] =
                [@ EXCEPT !.op = "update", !.step = StartStep(i), !.pc = "done", !.id = id,
                          !.result = "notFound"]]
          /\ UNCHANGED dataStream
     ELSE LET document == getDocumentById(id)
              h == FindHandler(document.kind)
          IN /\ dataStream' = Append(dataStream, UpdateClear(i, document))
             /\ task' = [task EXCEPT ![i] =
                  IF h = 0
                  THEN [@ EXCEPT !.op = "update", !.step = StartStep(i), !.pc = "failed",
                                 !.id = id, !.title = document.title,
                                 !.kind = document.kind, !.result = "threw"]
                  ELSE [@ EXCEPT !.op = "update", !.step = StartStep(i), !.pc = "callback",
                                 !.id = document.id,
                                 !.title = document.title,
                                 !.kind = documentHandlersByArtifactKind[h],
                                 !.createdAt = document.createdAt]]
  /\ UNCHANGED <<session, now, nextId, documents, suggestions, saveCalls>>
  /\ UNCHANGED notDocVars

\* ------------------------------------------------------------------------
\* The strategy callbacks config.onCreateDocument / config.onUpdateDocument
\* ------------------------------------------------------------------------
DeltasOf(i) ==
  Len(SelectSeq(dataStream, LAMBDA e : e.inv = i /\ e.type = "delta"))

\* the callback streams one piece of intermediate progress
CallbackStream(i) ==
  /\ task[i].pc = "callback"
  /\ DeltasOf(i) < MaxDeltas
  /\ dataStream' = Append(dataStream, Event(i, "delta", "chunk"))
  /\ UNCHANGED <<session, now, nextId, documents, suggestions, task,
                 saveCalls>>
  /\ UNCHANGED notDocVars

\* the callback fails: the error leaves the handler and the tool
CallbackThrow(i) ==
  /\ task[i].pc = "callback"
  /\ task' = [task EXCEPT ![i] = [@ EXCEPT !.pc = "failed",
                                           !.result = "threw"]]
  /\ UNCHANGED <<session, now, nextId, documents, suggestions, dataStream,
                 saveCalls>>
  /\ UNCHANGED notDocVars

\* ------------------------------------------------------------------------
\* createDocumentHandler: onCreateDocument / onUpdateDocument
\* ------------------------------------------------------------------------
\* the arguments of the saveDocument call the wrapper makes
SaveArgs_NoContent(i, draftContent) ==
  [inv |-> i, id |-> task[i].id, title |-> task[i].title,
   content |-> "", kind |-> task[i].kind, userId |-> session]

SaveArgs(i, draftContent) ==
  [inv |-> i, id |-> task[i].id, title |-> task[i].title,
   content |-> draftContent, kind |-> task[i].kind, userId |-> session]

\* if (args.session?.user?.id)
SessionHasUser == session # NoUser

\* the callback returns draftContent; the wrapper calls saveDocument when
\* the session has a user id and returns otherwise
HandlerAfterCallback_NoSave(i, draftContent) ==
  /\ task[i].pc = "callback"
  /\ task' = [task EXCEPT ![i] = [@ EXCEPT !.pc = "finishing",
                                           !.draft = draftContent]]
  /\ UNCHANGED <<session, now, nextId, documents, suggestions, dataStream,
                 saveCalls>>
  /\ UNCHANGED notDocVars

HandlerAfterCallback(i, draftContent) ==
  /\ task[i].pc = "callback"
  /\ IF SessionHasUser
     THEN /\ saveCalls' = [saveCalls EXCEPT
                           ![i] = Append(@, SaveArgs(i, draftContent))]
          /\ task' = [task EXCEPT ![i] = [@ EXCEPT !.pc = "saving",
                                                   !.draft = draftContent]]
     ELSE /\ UNCHANGED saveCalls
          /\ task' = [task EXCEPT ![i] = [@ EXCEPT !.pc = "finishing",
                                                   !.draft = draftContent]]
  /\ UNCHANGED <<session, now, nextId, documents, suggestions, dataStream>>
  /\ UNCHANGED notDocVars

\* ------------------------------------------------------------------------
\* saveDocument
\* ------------------------------------------------------------------------
\* the row db.insert(document).values(...) adds, created at time t
DocumentRow(call, t) ==
  [id |-> call.id, createdAt |-> t, title |-> call.title,
   kind |-> call.kind, content |-> call.content, userId |-> call.userId]

LastSaveCallOf(i) == saveCalls[i][Len(saveCalls[i])]

\* primaryKey({ columns: [table.id, table.createdAt] }): a row of this key
\* is stored
KeyTaken(id, t) == \E d \in documents : d.id = id /\ d.createdAt = t

\* the insert succeeds: createdAt is new Date(), a reading of the clock later
\* than the readings before it (an insert under a key (id, createdAt) that
\* is taken fails, which SaveDocumentFail covers)
SaveDocumentOk(i) ==
  /\ task[i].pc = "saving"
  /\ now' = now + 1
  /\ ~KeyTaken(task[i].id, now')
  /\ documents' = documents \cup {DocumentRow(LastSaveCallOf(i), now')}
  /\ task' = [task EXCEPT ![i] = [@ EXCEPT !.pc = "finishing",
                                           !.savedAt = now']]
  /\ UNCHANGED <<session, nextId, suggestions, dataStream, saveCalls>>
  /\ UNCHANGED notDocVars

\* the insert fails: saveDocument logs and re-throws
SaveDocumentFail_Swallowed(i) ==
  /\ task[i].pc = "saving"
  /\ task' = [task EXCEPT ![i] = [@ EXCEPT !.pc = "finishing"]]
  /\ UNCHANGED <<session, now, nextId, documents, suggestions, dataStream,
                 saveCalls>>
  /\ UNCHANGED notDocVars

SaveDocumentFail(i) ==
  /\ task[i].pc = "saving"
  /\ task' = [task EXCEPT ![i] = [@ EXCEPT !.pc = "failed",
                                           !.result = "threw"]]
  /\ UNCHANGED <<session, now, nextId, documents, suggestions, dataStream,
                 saveCalls>>
  /\ UNCHANGED notDocVars

\* ------------------------------------------------------------------------
\* saveDocument called on one store by any of its callers
\* ------------------------------------------------------------------------
\* the arguments of a call
SaveInputs ==
  [id : DocIds, title : Titles, kind : RequestedKinds,
   content : Drafts \cup {""}, userId : Users]

\* new Date(): a reading of the wall clock, which may be the reading before
\* it, a later one, or an earlier one after the clock was set back
ClockReadings == {t \in {now - 1, now, now + 1} : t >= 0}

\* saveDocument: one insert of a row whose createdAt is the clock reading;
\* the insert is rejected, and the call throws, when the key is taken
SaveDocumentCall(call, t) ==
  /\ Len(saveCalls[1]) < MaxSaves
  /\ t \in ClockReadings
  /\ now' = t
  /\ saveCalls' = [saveCalls EXCEPT ![1] = Append(@, call)]
  /\ documents' =
       IF KeyTaken(call.id, t) THEN documents
       ELSE documents \cup {DocumentRow(call, t)}
  /\ UNCHANGED <<session, nextId, suggestions, dataStream, task>>
  /\ UNCHANGED notDocVars

\* ------------------------------------------------------------------------
\* createDocument / updateDocument: the end of execute
\* ------------------------------------------------------------------------
FinishEvent(i) == Event(i, "finish", "")

WriteFinish_Twice(i) ==
  /\ task[i].pc = "finishing"
  /\ dataStream' = dataStream \o <<FinishEvent(i), FinishEvent(i)>>
  /\ task' = [task EXCEPT ![i] = [@ EXCEPT !.pc = "done", !.result = "ok"]]
  /\ UNCHANGED <<session, now, nextId, documents, suggestions, saveCalls>>
  /\ UNCHANGED notDocVars

WriteFinish(i) ==
  /\ task[i].pc = "finishing"
  /\ dataStream' = Append(dataStream, FinishEvent(i))
  /\ task' = [task EXCEPT ![i] = [@ EXCEPT !.pc = "done", !.result = "ok"]]
  /\ UNCHANGED <<session, now, nextId, documents, suggestions, saveCalls>>
  /\ UNCHANGED notDocVars

\* ------------------------------------------------------------------------
\* requestSuggestions.execute
\* ------------------------------------------------------------------------
\* the elements the model's element stream yields
Elements ==
  {[originalSentence |-> "old text", suggestedSentence |-> "new text",
    description |-> "clearer"]}

\* the suggestion built from one element of the stream
SuggestionOf(element, documentId) ==
  [originalText |-> element.originalSentence,
   suggestedText |-> element.suggestedSentence,
   description |-> element.description,
   id |-> generateUUID,
   documentId |-> documentId,
   isResolved |-> FALSE]

\* !document || !document.content
DocumentMissingOrEmpty_OnlyMissing(id) == getDocumentById(id) = NoDocument

DocumentMissingOrEmpty(id) ==
  \/ getDocumentById(id) = NoDocument
  \/ getDocumentById(id).content = ""

\* execute up to the first read of the element stream: the read of the
\* latest version and the not-found result
SuggestStart(i, documentId) ==
  /\ CanStart(i)
  /\ IF DocumentMissingOrEmpty(documentId)
     THEN task' = [task EXCEPT ![i] =
            [@ EXCEPT !.op = "suggest", !.step = StartStep(i), !.pc = "done", !.id = documentId,
                      !.result = "notFound"]]
     ELSE LET document == getDocumentById(documentId)
          IN task' = [task EXCEPT ![i] =
               [@ EXCEPT !.op = "suggest", !.step = StartStep(i), !.pc = "streaming",
                         !.id = documentId, !.title = document.title,
                         !.kind = document.kind,
                         !.createdAt = document.createdAt]]
  /\ UNCHANGED <<session, now, nextId, documents, suggestions, dataStream,
                 saveCalls>>
  /\ UNCHANGED notDocVars

\* suggestions.push(suggestion)
PushSuggestion_Front(buffer, suggestion) == <<suggestion>> \o buffer

PushSuggestion(buffer, suggestion) == Append(buffer, suggestion)

\* one iteration of the for await loop: the suggestion is written to the
\* data stream and pushed on the buffer
SuggestElement(i, element) ==
  /\ task[i].pc = "streaming"
  /\ Len(task[i].buffer) < MaxSuggestions
  /\ LET suggestion == SuggestionOf(element, task[i].id)
     IN /\ dataStream' = Append(dataStream, Event(i, "suggestion", suggestion))
        /\ task' = [task EXCEPT ![i] =
             [@ EXCEPT !.buffer = PushSuggestion(@, suggestion)]]
  /\ nextId' = nextId + 1
  /\ UNCHANGED <<session, now, documents, suggestions, saveCalls>>
  /\ UNCHANGED notDocVars

\* the request is aborted while execute reads the element stream: execute
\* takes no abort signal and hands none to streamObject, so its position
\* and its buffer are as before; the number of suggestions sent so far is
\* recorded
RequestAbort(i) ==
  /\ task[i].pc = "streaming"
  /\ task[i].abortedAt = NoAbort
  /\ task' = [task EXCEPT ![i] = [@ EXCEPT !.abortedAt = Len(task[i].buffer)]]
  /\ UNCHANGED <<session, now, nextId, documents, suggestions, dataStream,
                 saveCalls>>
  /\ UNCHANGED notDocVars

\* the element stream fails during the loop
SuggestStreamFail(i) ==
  /\ task[i].pc = "streaming"
  /\ task' = [task EXCEPT ![i] = [@ EXCEPT !.pc = "failed",
                                           !.result = "threw"]]
  /\ UNCHANGED <<session, now, nextId, documents, suggestions, dataStream,
                 saveCalls>>
  /\ UNCHANGED notDocVars

\* one row of the saveSuggestions argument: the suggestion with the user id,
\* the time of the call and the createdAt of the version that was read
SuggestionRow(suggestion, userId, createdAt, documentCreatedAt) ==
  [originalText |-> suggestion.originalText,
   suggestedText |-> suggestion.suggestedText,
   description |-> suggestion.description,
   id |-> suggestion.id,
   documentId |-> suggestion.documentId,
   isResolved |-> suggestion.isResolved,
   userId |-> userId,
   createdAt |-> createdAt,
   documentCreatedAt |-> documentCreatedAt]

\* suggestions.map(...): the argument of saveSuggestions
SaveSuggestionsArg(i) ==
  [k \in 1..Len(task[i].buffer) |->
     SuggestionRow(task[i].buffer[k], session, now, task[i].createdAt)]

\* the element stream ends: saveSuggestions is called when the session has
\* a user id, and execute returns otherwise
SuggestStreamEnd(i) ==
  /\ task[i].pc = "streaming"
  /\ task' = [task EXCEPT ![i] =
       IF SessionHasUser
       THEN [@ EXCEPT !.pc = "savingSuggestions",
                      !.saveSuggestionsCalls = Append(@, SaveSuggestionsArg(i))]
       ELSE [@ EXCEPT !.pc = "done", !.result = "ok"]]
  /\ UNCHANGED <<session, now, nextId, documents, suggestions, dataStream,
                 saveCalls>>
  /\ UNCHANGED notDocVars

\* the rows the pending saveSuggestions call inserts
SuggestionRows(i) ==
  LET call == task[i].saveSuggestionsCalls[Len(task[i].saveSuggestionsCalls)]
  IN {call[k] : k \in 1..Len(call)}

\* foreignKey({ columns: [documentId, documentCreatedAt], foreignColumns:
\* [document.id, document.createdAt] }): every row refers to a stored version
ForeignKeyHolds_Unchecked(rows) == TRUE

ForeignKeyHolds(rows) ==
  \A r \in rows : KeyTaken(r.documentId, r.documentCreatedAt)

\* saveSuggestions: the insert of all rows succeeds; an insert of a row that
\* refers to no stored version is rejected, which SaveSuggestionsFail covers
SaveSuggestionsOk(i) ==
  /\ task[i].pc = "savingSuggestions"
  /\ ForeignKeyHolds(SuggestionRows(i))
  /\ suggestions' = suggestions \cup SuggestionRows(i)
  /\ task' = [task EXCEPT ![i] = [@ EXCEPT !.pc = "done", !.result = "ok"]]
  /\ UNCHANGED <<session, now, nextId, documents, dataStream, saveCalls>>
  /\ UNCHANGED notDocVars

\* saveSuggestions: the insert fails, logged and re-thrown
SaveSuggestionsFail(i) ==
  /\ task[i].pc = "savingSuggestions"
  /\ task' = [task EXCEPT ![i] = [@ EXCEPT !.pc = "failed",
                                           !.result = "threw"]]
  /\ UNCHANGED <<session, now, nextId, documents, suggestions, dataStream,
                 saveCalls>>
  /\ UNCHANGED notDocVars

\* ------------------------------------------------------------------------
\* deleteDocumentsByIdAfterTimestamp
\* ------------------------------------------------------------------------
IdleDelete ==
  [pc |-> "idle", id |-> NoId, timestamp |-> 0, calls |-> 0, result |-> "none"]

DeleteIdle == deleteTask = IdleDelete

\* the first statement: db.delete(suggestion) of the rows of the id whose
\* documentCreatedAt is after the timestamp
DeleteSuggestions(id, timestamp) ==
  /\ deleteTask.pc = "idle"
  /\ deleteTask.calls < MaxDeletes
  /\ suggestions' = {r \in suggestions :
                       ~(r.documentId = id /\ r.documentCreatedAt > timestamp)}
  /\ deleteTask' = [pc |-> "documents", id |-> id, timestamp |-> timestamp,
                    calls |-> deleteTask.calls + 1, result |-> "none"]
  /\ UNCHANGED <<session, now, nextId, documents, dataStream, task, saveCalls>>
  /\ UNCHANGED notDocOrDeleteVars

\* a Suggestion row refers to the version d
Referenced(d) ==
  \E r \in suggestions :
    r.documentId = d.id /\ r.documentCreatedAt = d.createdAt

\* the versions the second statement is to delete
VersionsAfter(id, timestamp) ==
  {d \in documents : d.id = id /\ d.createdAt > timestamp}

\* the second statement: db.delete(document) of the versions of the id
\* created after the timestamp; the statement is rejected, and the call
\* throws, when a Suggestion row refers to one of them
DeleteDocuments ==
  /\ deleteTask.pc = "documents"
  /\ LET doomed == VersionsAfter(deleteTask.id, deleteTask.timestamp)
     IN IF \A d \in doomed : ~Referenced(d)
        THEN /\ documents' = documents \ doomed
             /\ deleteTask' = [deleteTask EXCEPT !.pc = "idle",
                                                 !.result = "returned"]
        ELSE /\ UNCHANGED documents
             /\ deleteTask' = [deleteTask EXCEPT !.pc = "idle",
                                                 !.result = "threw"]
  /\ UNCHANGED <<session, now, nextId, suggestions, dataStream, task, saveCalls>>
  /\ UNCHANGED notDocOrDeleteVars

DocInit ==
  /\ session \in Users \cup {NoUser}
  /\ now = 0
  /\ nextId = 0
  /\ documents \in InitialStores
  /\ suggestions = {}
  /\ dataStream = <<>>
  /\ task = [i \in Invocations |-> IdleTask]
  /\ saveCalls = [i \in Invocations |-> <<>>]
  /\ DeleteIdle

DocNext ==
  \E i \in Invocations :
    \/ \E title \in Titles, kind \in RequestedKinds : CreateStart(i, title, kind)
    \/ \E id \in DocIds : UpdateStart(i, id)
    \/ CallbackStream(i)
    \/ CallbackThrow(i)
    \/ \E draftContent \in Drafts : HandlerAfterCallback(i, draftContent)
    \/ SaveDocumentOk(i)
    \/ SaveDocumentFail(i)
    \/ WriteFinish(i)
    \/ \E id \in DocIds : SuggestStart(i, id)
    \/ \E element \in Elements : SuggestElement(i, element)
    \/ SuggestStreamFail(i)
    \/ SuggestStreamEnd(i)
    \/ SaveSuggestionsOk(i)
    \/ SaveSuggestionsFail(i)

\* ------------------------------------------------------------------------
\* Properties of the data stream and of the handler registry
\* ------------------------------------------------------------------------
\* the events invocation i has written, in order
EventsOf(i) == SelectSeq(dataStream, LAMBDA e : e.inv = i)

TypesOf(i) == LET ev == EventsOf(i) IN [k \in 1..Len(ev) |-> ev[k].type]

SaveCallsOf(i) == saveCalls[i]

\* C1: a createDocument invocation writes kind (the requested kind), id (the
\* generated id), title (the requested title) and clear (empty) first and in
\* that order, then only what the handler streams, and once it has
\* completed, finish (empty) is the last event it wrote.
C1_CreateEventOrder ==
  \A i \in Invocations :
    task[i].op = "create" =>
      LET ev == EventsOf(i)
      IN /\ Len(ev) >= 4
         /\ SubSeq(ev, 1, 4) =
              << Event(i, "kind", task[i].kind), Event(i, "id", task[i].id),
                 Event(i, "title", task[i].title), Event(i, "clear", "") >>
         /\ task[i].kind \in RequestedKinds /\ task[i].title \in Titles
         /\ \A k \in 5..Len(ev) :
              \/ ev[k].type = "delta"
              \/ k = Len(ev) /\ ev[k] = Event(i, "finish", "")
                             /\ task[i].pc = "done"
         /\ task[i].pc = "done" => ev[Len(ev)] = Event(i, "finish", "")

C1_Witness ==
  \E i \in Invocations :
    /\ task[i].op = "create" /\ task[i].pc = "done"
    /\ Len(EventsOf(i)) = 6 /\ EventsOf(i)[5].type = "delta"

\* C2 as stated: on the whole stream no event follows a finish and no type
\* other than suggestion occurs twice.
C2_Original ==
  /\ \A k \in 1..Len(dataStream) :
       dataStream[k].type = "finish" => k = Len(dataStream)
  /\ \A k, m \in 1..Len(dataStream) :
       (k # m /\ dataStream[k].type = dataStream[m].type)
         => dataStream[k].type = "suggestion"

\* C2 amended: per invocation, a createDocument or updateDocument
\* invocation writes each of kind, id, title, clear and finish at most once,
\* writes nothing after its finish and has finish as its last event once it
\* has completed; a requestSuggestions invocation writes suggestion events
\* only and never finish.
C2_FinishLastPerInvocation ==
  \A i \in Invocations :
    LET ev == EventsOf(i)
    IN /\ \A k, m \in 1..Len(ev) :
            (k # m /\ ev[k].type = ev[m].type)
              => ev[k].type \notin {"kind", "id", "title", "clear", "finish"}
       /\ \A k \in 1..Len(ev) : ev[k].type = "finish" => k = Len(ev)
       /\ (task[i].op \in {"create", "update"} /\ task[i].result = "ok")
            => (Len(ev) > 0 /\ ev[Len(ev)] = Event(i, "finish", ""))
       /\ task[i].op = "suggest" =>
            \A k \in 1..Len(ev) : ev[k].type = "suggestion"

\* two invocations have completed on the stream, the first of them wrote
\* finish and events of the second follow it
C2_Witness ==
  \E i, j \in Invocations :
    /\ i # j
    /\ task[i].op \in {"create", "update"} /\ task[i].result = "ok"
    /\ task[j].result = "ok"
    /\ \E k, m \in 1..Len(dataStream) :
         /\ k < m
         /\ dataStream[k] = Event(i, "finish", "")
         /\ dataStream[m].inv = j

\* C3 as stated: every invocation that has written a suggestion or finish
\* has written kind, id, title, clear first, in that order, and no
\* suggestion after finish.
C3_Original ==
  \A i \in Invocations :
    LET ev == EventsOf(i)
        ty == TypesOf(i)
    IN (\E k \in 1..Len(ev) : ty[k] \in {"suggestion", "finish"}) =>
         /\ Len(ev) >= 4
         /\ SubSeq(ty, 1, 4) = <<"kind", "id", "title", "clear">>
         /\ \A k, m \in 1..Len(ev) :
              (ty[k] = "finish" /\ ty[m] = "suggestion") => m < k

\* C3 amended: a createDocument invocation writes kind, id, title, clear,
\* in that order, before anything else it writes; an updateDocument
\* invocation writes of these four only clear, as its first event; a
\* requestSuggestions invocation writes suggestion events only, so no
\* invocation writes a suggestion after a finish.
C3_BootstrapPerOperation ==
  \A i \in Invocations :
    LET ev == EventsOf(i)
    IN /\ task[i].op = "create" =>
            /\ Len(ev) >= 4
            /\ ev[1].type = "kind" /\ ev[2].type = "id"
            /\ ev[3].type = "title" /\ ev[4].type = "clear"
            /\ \A k \in 5..Len(ev) : ev[k].type \in {"delta", "finish"}
       /\ (task[i].op = "update" /\ task[i].result # "notFound") =>
            /\ Len(ev) >= 1
            /\ ev[1].type = "clear"
            /\ \A k \in 2..Len(ev) : ev[k].type \in {"delta", "finish"}
       /\ task[i].op = "suggest" =>
            \A k \in 1..Len(ev) : ev[k].type = "suggestion"
       /\ \A k, m \in 1..Len(ev) :
            (ev[k].type = "finish" /\ ev[m].type = "suggestion") => m < k

\* an update has written clear and finish, and a suggestion request has
\* written a suggestion without any bootstrap event
C3_Witness ==
  \E i, j \in Invocations :
    /\ task[i].op = "update" /\ task[i].result = "ok"
    /\ TypesOf(i)[1] = "clear"
    /\ task[j].op = "suggest" /\ Len(EventsOf(j)) >= 1

C5_SaveOncePerHandlerCall ==
  \A i \in Invocations :
    task[i].op \in {"create", "update"} =>
      LET calls == SaveCallsOf(i)
      IN /\ ~SessionHasUser => Len(calls) = 0
         /\ task[i].draft = NoDraft => Len(calls) = 0
         /\ (SessionHasUser /\ task[i].draft # NoDraft) =>
              /\ Len(calls) = 1
              /\ calls[1].content = task[i].draft
              /\ calls[1].content \in Drafts
              /\ calls[1].kind = task[i].kind
              /\ calls[1].id = task[i].id
              /\ calls[1].title = task[i].title
              /\ calls[1].userId = session

C5_Witness ==
  \E i \in Invocations :
    /\ task[i].op = "update" /\ task[i].pc = "done" /\ task[i].result = "ok"
    /\ Len(SaveCallsOf(i)) = 1
    /\ SaveCallsOf(i)[1].content = "draft"

\* ------------------------------------------------------------------------
\* The editor: handleTransaction
\* ------------------------------------------------------------------------
EditorChars == {"a", "*"}

\* tr.getMeta(suggestionsPluginKey): unset, or the plugin state to adopt
NoSelection == "null"

NoPluginMeta == [set |-> FALSE, decorations |-> {}, selected |-> NoSelection]

PluginMeta(decos) ==
  [set |-> TRUE, decorations |-> decos, selected |-> NoSelection]

NoTransaction == [steps |-> <<>>, meta |-> {}, plugin |-> NoPluginMeta]

\* transaction.docChanged: the transaction has steps
docChanged(transaction) == Len(transaction.steps) > 0

\* transaction.getMeta(key), as a truth value
getMeta(transaction, key) == key \in transaction.meta

\* one replace step applied to the text
ApplyStep(doc, step) ==
  SubSeq(doc, 1, step.from) \o step.insert \o SubSeq(doc, step.to + 1, Len(doc))

RECURSIVE ApplySteps(_, _)
ApplySteps(doc, steps) ==
  IF steps = <<>> THEN doc
  ELSE ApplySteps(ApplyStep(doc, Head(steps)), Tail(steps))

\* editorRef.current.state.apply(transaction).doc
StateApply(doc, transaction) == ApplySteps(doc, transaction.steps)

\* buildContentFromDocument: the markdown serializer escapes the characters
\* that are markdown syntax
RECURSIVE buildContentFromDocument(_)
buildContentFromDocument(doc) ==
  IF doc = <<>> THEN <<>>
  ELSE (IF Head(doc) = "*" THEN <<"\\", "*">> ELSE <<Head(doc)>>)
         \o buildContentFromDocument(Tail(doc))

\* transaction.docChanged && !transaction.getMeta('no-save')
ShouldSave_IgnoresNoSave(transaction) == docChanged(transaction)

ShouldSave(transaction) ==
  docChanged(transaction) /\ ~getMeta(transaction, "no-save")

\* the debounce argument of onSaveContent
SaveDebounce(transaction) == ~getMeta(transaction, "no-debounce")

\* the transactions a view with this document can dispatch
TransactionsOn(doc) ==
  {[steps |-> st, meta |-> me, plugin |-> NoPluginMeta] :
     st \in {<<>>} \cup
            {<<[from |-> f, to |-> t, insert |-> ins]>> :
               f \in 0..Len(doc), t \in 0..Len(doc),
               ins \in {<<>>} \cup {<<c>> : c \in EditorChars}},
     me \in SUBSET {"no-save", "no-debounce"}}

\* The document has one text block: position p of the document is offset
\* p - 1 into its text, and doc.content.size is Len(text) + 2.
\* StepMap.map(pos, assoc) of one replace step
MapPos(step, pos, assoc) ==
  LET start == step.from + 1
      oldSize == step.to - step.from
      newSize == Len(step.insert)
      end == start + oldSize
  IN IF pos < start THEN pos
     ELSE IF pos <= end
     THEN LET side == IF oldSize = 0 THEN assoc
                      ELSE IF pos = start THEN -1
                      ELSE IF pos = end THEN 1
                      ELSE assoc
          IN start + (IF side < 0 THEN 0 ELSE newSize)
     ELSE pos + newSize - oldSize

\* StepMap.mapResult(pos, assoc).deleted
MapDeleted(step, pos, assoc) ==
  LET start == step.from + 1
      end == step.to + 1
  IN /\ start <= pos /\ pos <= end
     /\ IF assoc < 0 THEN pos # start ELSE pos # end

\* DecorationSet.map over one step: an inline decoration maps its ends
\* inwards and is dropped when it becomes empty, a widget is dropped when
\* the content at its position is deleted
MapDecorationsStep(decos, step) ==
  {[d EXCEPT !.from = MapPos(step, d.from, 1),
             !.to = IF d.type = "widget" THEN MapPos(step, d.from, 1)
                    ELSE MapPos(step, d.to, -1)] :
     d \in {e \in decos :
              IF e.type = "widget" THEN ~MapDeleted(step, e.from, 1)
              ELSE MapPos(step, e.from, 1) < MapPos(step, e.to, -1)}}

RECURSIVE MapDecorations(_, _)
MapDecorations(decos, steps) ==
  IF steps = <<>> THEN decos
  ELSE MapDecorations(MapDecorationsStep(decos, Head(steps)), Tail(steps))

\* suggestionsPlugin.state.apply(tr, state): decorations
PluginApply_Unmapped(transaction, decos) ==
  IF transaction.plugin.set THEN transaction.plugin.decorations
  ELSE decos

PluginApply(transaction, decos) ==
  IF transaction.plugin.set THEN transaction.plugin.decorations
  ELSE MapDecorations(decos, transaction.steps)

\* suggestionsPlugin.state.apply(tr, state): selected
PluginApplySelected(transaction, selection) ==
  IF transaction.plugin.set THEN transaction.plugin.selected
  ELSE selection

\* handleTransaction has not been called
NotCalled == "not called"

handleTransaction(transaction) ==
  /\ transactions' = transactions + 1
  /\ lastTransaction' = transaction
  /\ IF ~editorLive
     THEN /\ handleResult' = "returned"
          /\ UNCHANGED <<editorDoc, saveContentCalls, decorations, selected>>
     ELSE LET newDoc == StateApply(editorDoc, transaction)
          IN /\ handleResult' = "returned"
             /\ editorDoc' = newDoc
             /\ decorations' = PluginApply(transaction, decorations)
             /\ selected' = PluginApplySelected(transaction, selected)
             /\ IF ShouldSave(transaction)
                THEN saveContentCalls' = Append(saveContentCalls,
                       [content |-> buildContentFromDocument(newDoc),
                        debounce |-> SaveDebounce(transaction)])
                ELSE UNCHANGED saveContentCalls
  /\ UNCHANGED editorLive

NoApply ==
  [pc |-> "none", id |-> "", doc |-> <<>>, from |-> 0, to |-> 0, saves |-> 0]

\* no onApply call is between its two dispatches
NotApplying == applyTrace.pc # "removed"

\* the view dispatches a transaction of the user
Dispatch(transaction) ==
  /\ transactions < MaxTransactions
  /\ NotApplying
  /\ \A k \in 1..Len(transaction.steps) :
       /\ transaction.steps[k].from <= transaction.steps[k].to
       /\ Len(ApplySteps(editorDoc, transaction.steps)) <= MaxDocLen
  /\ handleTransaction(transaction)
  /\ UNCHANGED <<uiSuggestions, applyTrace>>
  /\ UNCHANGED notEditorVars

\* the view is destroyed: editorRef.current becomes null
EditorUnmount ==
  /\ editorLive
  /\ NotApplying
  /\ editorLive' = FALSE
  /\ UNCHANGED <<editorDoc, transactions, lastTransaction, handleResult,
                 saveContentCalls, uiSuggestions, decorations, selected,
                 applyTrace>>
  /\ UNCHANGED notEditorVars

EditorIdle ==
  /\ editorLive = TRUE
  /\ editorDoc = <<"a">>
  /\ transactions = 0
  /\ lastTransaction = NoTransaction
  /\ handleResult = NotCalled
  /\ saveContentCalls = <<>>
  /\ uiSuggestions = <<>>
  /\ decorations = {}
  /\ selected = NoSelection
  /\ applyTrace = NoApply

EditorInit ==
  /\ editorLive = TRUE
  /\ editorDoc \in {<<"a">>, <<"a", "*">>}
  /\ transactions = 0
  /\ lastTransaction = NoTransaction
  /\ handleResult = NotCalled
  /\ saveContentCalls = <<>>
  /\ uiSuggestions = <<>>
  /\ decorations = {}
  /\ selected = NoSelection
  /\ applyTrace = NoApply

EditorNext ==
  \/ \E transaction \in TransactionsOn(editorDoc) : Dispatch(transaction)
  \/ EditorUnmount

\* C6: a transaction handled with a live editor reference is applied to the
\* editor state; the save callback is called exactly once, with the
\* serialized new document, when the document changed and no-save is absent
\* (debounce = false exactly when no-debounce is set), and not at all
\* otherwise.
C6_TransactionSavePolicy ==
  [][ (transactions' = transactions + 1 /\ editorLive) =>
        LET tr == lastTransaction'
            changed == Len(tr.steps) > 0
        IN /\ editorDoc' = ApplySteps(editorDoc, tr.steps)
           /\ (changed /\ "no-save" \notin tr.meta) =>
                saveContentCalls' = Append(saveContentCalls,
                  [content |-> buildContentFromDocument(editorDoc'),
                   debounce |-> ("no-debounce" \notin tr.meta)])
           /\ (~changed \/ "no-save" \in tr.meta) =>
                saveContentCalls' = saveContentCalls
    ]_<<editorVars>>

\* an immediate save was made, and then a transaction that changed the
\* document under no-save was applied without a save
C6_Witness ==
  /\ editorLive
  /\ transactions = 2
  /\ Len(saveContentCalls) = 1
  /\ saveContentCalls[1].debounce = FALSE
  /\ Len(lastTransaction.steps) > 0
  /\ "no-save" \in lastTransaction.meta

\* C24 as stated: a call of handleTransaction made while the editor
\* reference holds no view has ended with an error thrown to its caller.
C24_Original ==
  [][(transactions' = transactions + 1 /\ ~editorLive) =>
       handleResult' = "threw"]_<<editorVars>>

\* ------------------------------------------------------------------------
\* Message reconciliation: message shapes
\* ------------------------------------------------------------------------
NoReasoning == "<undefined>"   \* reasoning: undefined

Reasonings == {NoReasoning, "", "because"}

\* if (reasoning)
Truthy(reasoning) == reasoning # NoReasoning /\ reasoning # ""

TextPart(text) == [type |-> "text", text |-> text]

ToolCallPart(toolCallId) ==
  [type |-> "tool-call", toolCallId |-> toolCallId,
   toolName |-> "getWeather", args |-> "{}"]

ToolResultPart(toolCallId, result) ==
  [type |-> "tool-result", toolCallId |-> toolCallId,
   toolName |-> "getWeather", result |-> result]

ReasoningPart(reasoning) == [type |-> "reasoning", reasoning |-> reasoning]

\* message.content is a string or an array of parts
StringContent(text) == [typeof |-> "string", value |-> text]

ArrayContent(parts) == [typeof |-> "array", value |-> parts]

\* sequences of at most n elements of S
SeqsUpTo(S, n) == UNION {[1..m -> S] : m \in 0..n}

\* the messages of a batch, identified by their position
WithIds(shapes) ==
  [k \in 1..Len(shapes) |->
     [id |-> ToString(k), role |-> shapes[k].role,
      content |-> shapes[k].content]]

\* ------------------------------------------------------------------------
\* sanitizeResponseMessages
\* ------------------------------------------------------------------------
\* the toolCallIds of the tool-result parts of the tool messages
ToolResultIds(messages) ==
  UNION {{messages[k].content.value[n].toolCallId :
            n \in {m \in 1..Len(messages[k].content.value) :
                     messages[k].content.value[m].type = "tool-result"}} :
         k \in {j \in 1..Len(messages) : messages[j].role = "tool"}}

\* the filter on the parts of an assistant message
KeepPart_KeepsCalls(toolResultIds, content) ==
  IF content.type = "text" THEN Len(content.text) > 0 ELSE TRUE

KeepPart(toolResultIds, content) ==
  IF content.type = "tool-call" THEN content.toolCallId \in toolResultIds
  ELSE IF content.type = "text" THEN Len(content.text) > 0
  ELSE TRUE

\* the map over the messages
SanitizedContent(message, toolResultIds, reasoning) ==
  IF message.role # "assistant" THEN message
  ELSE IF message.content.typeof = "string" THEN message
  ELSE LET keep(content) == KeepPart(toolResultIds, content)
           sanitizedContent == SelectSeq(message.content.value, keep)
       IN [message EXCEPT !.content.value =
             IF Truthy(reasoning)
             THEN Append(sanitizedContent, ReasoningPart(reasoning))
             ELSE sanitizedContent]

sanitizeResponseMessages(messages, reasoning) ==
  LET toolResultIds == ToolResultIds(messages)
      messagesBySanitizedContent ==
        [k \in 1..Len(messages) |->
           SanitizedContent(messages[k], toolResultIds, reasoning)]
      nonEmpty(message) == Len(message.content.value) > 0
  IN SelectSeq(messagesBySanitizedContent, nonEmpty)

\* the response messages a generation step produces
ResponseShapes ==
  {[role |-> "assistant", content |-> c] :
     c \in {StringContent("hi"), StringContent(""),
            ArrayContent(<<>>),
            ArrayContent(<<TextPart("hi")>>),
            ArrayContent(<<ToolCallPart("t1")>>),
            ArrayContent(<<TextPart(""), ToolCallPart("t2")>>),
            ArrayContent(<<TextPart("hi"), ToolCallPart("t1"),
                           ToolCallPart("t2")>>)}}
  \cup
  {[role |-> "tool", content |-> c] :
     c \in {ArrayContent(<<>>),
            ArrayContent(<<ToolResultPart("t1", "r1")>>),
            ArrayContent(<<ToolResultPart("t2", "r1")>>)}}

ResponseBatches == {WithIds(b) : b \in SeqsUpTo(ResponseShapes, MaxBatch)}

NotRun == [done |-> FALSE, value |-> <<>>]

Returned(value) == [done |-> TRUE, value |-> value]

SanitizeResponse ==
  /\ ~responseOutput.done
  /\ responseOutput' =
       Returned(sanitizeResponseMessages(responseMessages, responseReasoning))
  /\ UNCHANGED <<responseMessages, responseReasoning, uiMessages, uiOutput,
                 dbMessages, chatMessages>>
  /\ UNCHANGED notMessageVars

\* ------------------------------------------------------------------------
\* sanitizeUIMessages
\* ------------------------------------------------------------------------
CallInvocation(toolCallId) ==
  [state |-> "call", toolCallId |-> toolCallId, toolName |-> "getWeather",
   args |-> "{}"]

ResultInvocation(toolCallId, result) ==
  [state |-> "result", toolCallId |-> toolCallId,
   toolName |-> "getWeather", args |-> "{}", result |-> result]

\* message.toolInvocations is defined
HasInvocations(message) == "toolInvocations" \in DOMAIN message

\* the filter on the toolInvocations of an assistant message
KeepInvocation_All(toolInvocation, toolResultIds) == TRUE

KeepInvocation(toolInvocation, toolResultIds) ==
  \/ toolInvocation.state = "result"
  \/ toolInvocation.toolCallId \in toolResultIds

SanitizedInvocations(message) ==
  IF message.role # "assistant" THEN message
  ELSE IF ~HasInvocations(message) THEN message
  ELSE LET toolResultIds ==
             {message.toolInvocations[n].toolCallId :
                n \in {m \in 1..Len(message.toolInvocations) :
                         message.toolInvocations[m].state = "result"}}
           keep(toolInvocation) == KeepInvocation(toolInvocation, toolResultIds)
       IN [message EXCEPT !.toolInvocations = SelectSeq(@, keep)]

sanitizeUIMessages(messages) ==
  LET messagesBySanitizedToolInvocations ==
        [k \in 1..Len(messages) |-> SanitizedInvocations(messages[k])]
      keep(message) ==
        \/ Len(message.content) > 0
        \/ (HasInvocations(message) /\ Len(message.toolInvocations) > 0)
  IN SelectSeq(messagesBySanitizedToolInvocations, keep)

\* the UI messages the chat holds when the sanitizer runs
UIShapes ==
  {[role |-> "user", content |-> "hi"],
   [role |-> "assistant", content |-> ""],
   [role |-> "assistant", content |-> "hi"]}
  \cup
  {[role |-> "assistant", content |-> c, toolInvocations |-> t] :
     c \in {"", "hi"},
     t \in {<<>>,
            <<CallInvocation("t1")>>,
            <<ResultInvocation("t1", "r1")>>,
            <<CallInvocation("t1"), ResultInvocation("t1", "r1")>>,
            <<CallInvocation("t1"), ResultInvocation("t2", "r1")>>}}
  \cup
  {[role |-> "user", content |-> "", toolInvocations |-> <<CallInvocation("t1")>>]}

UIWithIds(shapes) ==
  [k \in 1..Len(shapes) |->
     [f \in DOMAIN shapes[k] \cup {"id"} |->
        IF f = "id" THEN ToString(k) ELSE shapes[k][f]]]

UIBatches == {UIWithIds(b) : b \in SeqsUpTo(UIShapes, MaxBatch)}

SanitizeUI ==
  /\ ~uiOutput.done
  /\ uiOutput' = Returned(sanitizeUIMessages(uiMessages))
  /\ UNCHANGED <<responseMessages, responseReasoning, responseOutput,
                 uiMessages, dbMessages, chatMessages>>
  /\ UNCHANGED notMessageVars

\* ------------------------------------------------------------------------
\* convertToUIMessages
\* ------------------------------------------------------------------------
\* toolMessage.content.find((tool) => tool.toolCallId === toolCallId):
\* the index of the first such part, 0 for undefined
FindToolResult(toolMessage, toolCallId) ==
  LET hits == {n \in 1..Len(toolMessage.content.value) :
                 toolMessage.content.value[n].toolCallId = toolCallId}
  IN IF hits = {} THEN 0 ELSE CHOOSE n \in hits : \A m \in hits : n <= m

\* the map over the toolInvocations of one message
PatchInvocation_NoPayload(toolMessage, toolInvocation) ==
  IF FindToolResult(toolMessage, toolInvocation.toolCallId) # 0
  THEN [state |-> "result", toolCallId |-> toolInvocation.toolCallId,
        toolName |-> toolInvocation.toolName, args |-> toolInvocation.args]
  ELSE toolInvocation

PatchInvocation_ResetsOthers(toolMessage, toolInvocation) ==
  LET n == FindToolResult(toolMessage, toolInvocation.toolCallId)
  IN IF n # 0
     THEN [state |-> "result", toolCallId |-> toolInvocation.toolCallId,
           toolName |-> toolInvocation.toolName, args |-> toolInvocation.args,
           result |-> toolMessage.content.value[n].result]
     ELSE CallInvocation(toolInvocation.toolCallId)

PatchInvocation(toolMessage, toolInvocation) ==
  LET n == FindToolResult(toolMessage, toolInvocation.toolCallId)
  IN IF n # 0
     THEN [state |-> "result", toolCallId |-> toolInvocation.toolCallId,
           toolName |-> toolInvocation.toolName, args |-> toolInvocation.args,
           result |-> toolMessage.content.value[n].result]
     ELSE toolInvocation

addToolMessageToChat(toolMessage, messages) ==
  [k \in 1..Len(messages) |->
     IF HasInvocations(messages[k])
     THEN [messages[k] EXCEPT !.toolInvocations =
             [n \in 1..Len(@) |-> PatchInvocation(toolMessage, @[n])]]
     ELSE messages[k]]

\* textContent += content.text over the text parts
RECURSIVE TextContent(_)
TextContent(parts) ==
  IF parts = <<>> THEN ""
  ELSE (IF Head(parts).type = "text" THEN Head(parts).text ELSE "")
         \o TextContent(Tail(parts))

\* reasoning = content.reasoning: the last reasoning part wins
RECURSIVE ReasoningOf(_, _)
ReasoningOf(parts, reasoning) ==
  IF parts = <<>> THEN reasoning
  ELSE ReasoningOf(Tail(parts),
         IF Head(parts).type = "reasoning" THEN Head(parts).reasoning
         ELSE reasoning)

\* toolInvocations.push({state: 'call', ...}) over the tool-call parts
ToolInvocationsOf(parts) ==
  LET isCall(content) == content.type = "tool-call"
      calls == SelectSeq(parts, isCall)
  IN [n \in 1..Len(calls) |->
        [state |-> "call", toolCallId |-> calls[n].toolCallId,
         toolName |-> calls[n].toolName, args |-> calls[n].args]]

\* the UI message pushed for a message that is not a tool message
UIMessageOf(message) ==
  IF message.content.typeof = "string"
  THEN [id |-> message.id, role |-> message.role,
        content |-> message.content.value, reasoning |-> NoReasoning,
        toolInvocations |-> <<>>]
  ELSE [id |-> message.id, role |-> message.role,
        content |-> TextContent(message.content.value),
        reasoning |-> ReasoningOf(message.content.value, NoReasoning),
        toolInvocations |-> ToolInvocationsOf(message.content.value)]

\* the reducer of convertToUIMessages
ConvertReducer(chat, message) ==
  IF message.role = "tool"
  THEN addToolMessageToChat(message, chat)
  ELSE Append(chat, UIMessageOf(message))

\* the stored messages of a chat
StoredShapes ==
  {[role |-> "user", content |-> StringContent("hi")],
   [role |-> "assistant", content |-> StringContent("hi")],
   [role |-> "assistant",
    content |-> ArrayContent(<<TextPart("hi"), ToolCallPart("t1")>>)],
   [role |-> "assistant",
    content |-> ArrayContent(<<ToolCallPart("t1"), ToolCallPart("t2")>>)],
   [role |-> "assistant",
    content |-> ArrayContent(<<ReasoningPart("think"), TextPart("a"),
                               TextPart("b")>>)],
   [role |-> "tool",
    content |-> ArrayContent(<<ToolResultPart("t1", "r1")>>)],
   [role |-> "tool",
    content |-> ArrayContent(<<ToolResultPart("t1", "r2")>>)],
   [role |-> "tool",
    content |-> ArrayContent(<<ToolResultPart("t2", "r1"),
                               ToolResultPart("t1", "r1")>>)]}

\* one iteration of the reduce, over the next stored message
ConvertStep(shape) ==
  /\ Len(dbMessages) < MaxStored
  /\ LET message == [id |-> ToString(Len(dbMessages) + 1),
                     role |-> shape.role, content |-> shape.content]
     IN /\ dbMessages' = Append(dbMessages, message)
        /\ chatMessages' = ConvertReducer(chatMessages, message)
  /\ UNCHANGED <<responseMessages, responseReasoning, responseOutput,
                 uiMessages, uiOutput>>
  /\ UNCHANGED notMessageVars

\* one iteration of the reduce over the messages sanitizeResponseMessages
\* returned, in the order it returned them
DisplayStep ==
  /\ responseOutput.done
  /\ Len(dbMessages) < Len(responseOutput.value)
  /\ LET message == responseOutput.value[Len(dbMessages) + 1]
     IN /\ dbMessages' = Append(dbMessages, message)
        /\ chatMessages' = ConvertReducer(chatMessages, message)
  /\ UNCHANGED <<responseMessages, responseReasoning, responseOutput,
                 uiMessages, uiOutput>>
  /\ UNCHANGED notMessageVars

MessagesIdle ==
  /\ responseMessages = <<>>
  /\ responseReasoning = NoReasoning
  /\ responseOutput = NotRun
  /\ uiMessages = <<>>
  /\ uiOutput = NotRun
  /\ dbMessages = <<>>
  /\ chatMessages = <<>>

\* ------------------------------------------------------------------------
\* Suggestion projection: findPositionsInDoc / projectWithPositions
\* ------------------------------------------------------------------------
\* A document is the sequence of its text leaves in document order. Each
\* leaf holds its text and whether it opens a new text block; a leaf that
\* does not follows a leaf of the same block that carries other marks.
LeafTexts == {<<"a">>, <<"b">>, <<"a", "b">>, <<"b", "a", "b">>}

ProjDocs ==
  {doc \in SeqsUpTo([text : LeafTexts, newBlock : BOOLEAN], MaxLeaves) :
     Len(doc) >= 1 /\ doc[1].newBlock}

\* originalText of the suggestions to project
SearchTexts == {<<>>, <<"a">>, <<"a", "b">>, <<"c">>}

ProjSuggestions ==
  {[k \in 1..Len(texts) |->
      [id |-> ToString(k), originalText |-> texts[k],
       suggestedText |-> <<"c">>]] :
     texts \in SeqsUpTo(SearchTexts, MaxSuggestions)}

\* the position nodesBetween reports for leaf k: a block's open and close
\* tokens take one position each, a character of text takes one
RECURSIVE LeafPos(_, _)
LeafPos(doc, k) ==
  IF k = 1 THEN 1
  ELSE LeafPos(doc, k - 1) + Len(doc[k - 1].text)
         + (IF doc[k].newBlock THEN 2 ELSE 0)

\* node.text.indexOf(searchText)
indexOf(text, searchText) ==
  LET hits == {i \in 0..(Len(text) - Len(searchText)) :
                 SubSeq(text, i + 1, i + Len(searchText)) = searchText}
  IN IF hits = {} THEN -1 ELSE CHOOSE i \in hits : \A j \in hits : i <= j

NoPositions == [found |-> FALSE, start |-> 0, end |-> 0]

\* the callback of nodesBetween on text leaf k; returning false keeps
\* nodesBetween from descending into the leaf, not from visiting the rest
VisitLeaf(doc, searchText, k, positions) ==
  LET index == indexOf(doc[k].text, searchText)
  IN IF index # -1
     THEN [found |-> TRUE, start |-> LeafPos(doc, k) + index,
           end |-> LeafPos(doc, k) + index + Len(searchText)]
     ELSE positions

\* doc.nodesBetween(0, doc.content.size, ...) from leaf k on
RECURSIVE nodesBetween(_, _, _, _)
nodesBetween(doc, searchText, k, positions) ==
  IF k > Len(doc) THEN positions
  ELSE nodesBetween(doc, searchText, k + 1,
                    VisitLeaf(doc, searchText, k, positions))

findPositionsInDoc(doc, searchText) ==
  nodesBetween(doc, searchText, 1, NoPositions)

\* the UISuggestion of one suggestion
ProjectOne_NoDefault(doc, suggestion) ==
  LET positions == findPositionsInDoc(doc, suggestion.originalText)
  IN [id |-> suggestion.id, originalText |-> suggestion.originalText,
      suggestedText |-> suggestion.suggestedText,
      selectionStart |-> positions.start,
      selectionEnd |-> IF positions.found THEN positions.end
                       ELSE Len(suggestion.originalText)]

ProjectOne(doc, suggestion) ==
  LET positions == findPositionsInDoc(doc, suggestion.originalText)
  IN IF ~positions.found
     THEN [id |-> suggestion.id, originalText |-> suggestion.originalText,
           suggestedText |-> suggestion.suggestedText,
           selectionStart |-> 0, selectionEnd |-> 0]
     ELSE [id |-> suggestion.id, originalText |-> suggestion.originalText,
           suggestedText |-> suggestion.suggestedText,
           selectionStart |-> positions.start,
           selectionEnd |-> positions.end]

projectWithPositions(doc, suggestionList) ==
  [k \in 1..Len(suggestionList) |-> ProjectOne(doc, suggestionList[k])]

Project ==
  /\ ~projOutput.done
  /\ projOutput' = Returned(projectWithPositions(projDoc, projSuggestions))
  /\ UNCHANGED <<projDoc, projSuggestions>>
  /\ UNCHANGED notProjectionVars

ProjectionIdle ==
  /\ projDoc = <<[text |-> <<"a">>, newBlock |-> TRUE]>>
  /\ projSuggestions = <<>>
  /\ projOutput = NotRun

\* ------------------------------------------------------------------------
\* Suggestion decorations: createDecorations / createSuggestionWidget.onApply
\* ------------------------------------------------------------------------
\* createDecorations: an inline highlight over the range and a widget at
\* its start for each suggestion
createDecorations(suggestionList) ==
  UNION {{[suggestionId |-> suggestionList[k].id, type |-> "highlight",
           from |-> suggestionList[k].selectionStart,
           to |-> suggestionList[k].selectionEnd],
          [suggestionId |-> suggestionList[k].id, type |-> "widget",
           from |-> suggestionList[k].selectionStart,
           to |-> suggestionList[k].selectionStart]} :
         k \in 1..Len(suggestionList)}

\* the editor document as a document of one text block
DocOfText(text) == <<[text |-> text, newBlock |-> TRUE]>>

\* the suggestions shown in the editor
ShownDocs == {<<"a", "b">>, <<"b", "a", "b">>}

ShownSuggestions ==
  {[k \in 1..Len(shapes) |->
      [id |-> ToString(k), originalText |-> shapes[k].originalText,
       suggestedText |-> shapes[k].suggestedText]] :
     shapes \in SeqsUpTo([originalText : {<<"b">>, <<"a", "b">>},
                          suggestedText : {<<"c">>, <<>>}],
                         MaxSuggestions) \ {<<>>}}

\* the decorations this suggestion's apply leaves: those of the others
RemainingDecorations(decos, suggestion) ==
  {d \in decos : d.suggestionId # suggestion.id}

\* the range the replacement is made on: the range the suggestion was
\* projected to when its widget was created
ReplaceRange(decos, suggestion) ==
  [from |-> suggestion.selectionStart, to |-> suggestion.selectionEnd]

\* the highlight of suggestion id in decos, from = to = 0 if there is none
HighlightOf(decos, id) ==
  LET hs == {d \in decos : d.suggestionId = id /\ d.type = "highlight"}
  IN IF hs = {} THEN [from |-> 0, to |-> 0]
     ELSE LET h == CHOOSE d \in hs : TRUE IN [from |-> h.from, to |-> h.to]

\* onApply up to and including dispatch(decorationTransaction): the widget
\* of suggestion k is on screen and its apply action is triggered
ApplyRemoveDecorations(k) ==
  /\ editorLive
  /\ NotApplying
  /\ k \in 1..Len(uiSuggestions)
  /\ \E d \in decorations :
       d.suggestionId = uiSuggestions[k].id /\ d.type = "widget"
  /\ LET suggestion == uiSuggestions[k]
         newDecorations == RemainingDecorations(decorations, suggestion)
         decorationTransaction ==
           [steps |-> <<>>, meta |-> {}, plugin |-> PluginMeta(newDecorations)]
         highlight == HighlightOf(decorations, suggestion.id)
     IN /\ handleTransaction(decorationTransaction)
        /\ applyTrace' = [pc |-> "removed", id |-> suggestion.id,
                          doc |-> editorDoc, from |-> highlight.from,
                          to |-> highlight.to,
                          saves |-> Len(saveContentCalls)]
  /\ UNCHANGED uiSuggestions
  /\ UNCHANGED notEditorVars

\* what view.state.tr.replaceWith(from, to, schema.text(text)) does on the
\* text: schema.text throws on an empty text and a position beyond
\* doc.content.size cannot be resolved; a range that ends at
\* doc.content.size, beyond the text block, is replaced up to the end of
\* the text or is refused
ReplaceOutcomes(doc, range, text) ==
  IF text = <<>> \/ range.to > Len(doc) + 2 THEN {"throws"}
  ELSE IF range.to = Len(doc) + 2 THEN {"throws", "replaces"}
  ELSE {"replaces"}

\* the rest of onApply: the text transaction, tagged no-debounce
ApplyReplaceText(outcome) ==
  /\ applyTrace.pc = "removed"
  /\ LET suggestion ==
           uiSuggestions[CHOOSE k \in 1..Len(uiSuggestions) :
                           uiSuggestions[k].id = applyTrace.id]
         range == ReplaceRange(decorations, suggestion)
         textTransaction ==
           [steps |-> <<[from |-> range.from - 1,
                         to |-> IF range.to > Len(editorDoc) + 1
                                THEN Len(editorDoc) ELSE range.to - 1,
                         insert |-> suggestion.suggestedText]>>,
            meta |-> {"no-debounce"}, plugin |-> NoPluginMeta]
     IN /\ outcome \in ReplaceOutcomes(editorDoc, range, suggestion.suggestedText)
        /\ IF outcome = "throws"
           THEN /\ applyTrace' = [applyTrace EXCEPT !.pc = "threw"]
                /\ UNCHANGED <<editorLive, editorDoc, transactions,
                               lastTransaction, handleResult, saveContentCalls,
                               decorations, selected>>
           ELSE /\ applyTrace' = [applyTrace EXCEPT !.pc = "done"]
                /\ handleTransaction(textTransaction)
  /\ UNCHANGED uiSuggestions
  /\ UNCHANGED notEditorVars

\* the edits the user makes while the suggestions are shown: one character
\* typed or deleted
UserEdits(doc) ==
  {[steps |-> <<[from |-> f, to |-> f, insert |-> <<"a">>]>>,
    meta |-> {}, plugin |-> NoPluginMeta] : f \in 0..Len(doc)}
  \cup
  {[steps |-> <<[from |-> f, to |-> f + 1, insert |-> <<>>]>>,
    meta |-> {}, plugin |-> NoPluginMeta] : f \in 0..(Len(doc) - 1)}

\* ------------------------------------------------------------------------
\* Properties of the message reconciliation functions
\* ------------------------------------------------------------------------
IdsOf(messages) == {messages[k].id : k \in 1..Len(messages)}

\* the toolCallIds that have a tool-result part somewhere in the batch
AnsweredIds(messages) ==
  {id \in {"t1", "t2"} :
     \E k \in 1..Len(messages) :
       /\ messages[k].role = "tool"
       /\ \E n \in 1..Len(messages[k].content.value) :
            /\ messages[k].content.value[n].type = "tool-result"
            /\ messages[k].content.value[n].toolCallId = id}

\* an assistant message of the batch whose parts are all dangling tool-calls
\* or empty text parts
EmptyAfterStripping(message, messages) ==
  /\ message.role = "assistant"
  /\ message.content.typeof = "array"
  /\ Len(message.content.value) > 0
  /\ \A n \in 1..Len(message.content.value) :
       LET part == message.content.value[n]
       IN \/ part.type = "tool-call" /\ part.toolCallId \notin AnsweredIds(messages)
          \/ part.type = "text" /\ part.text = ""

NoDanglingCallInOutput ==
  \A k \in 1..Len(responseOutput.value) :
    LET message == responseOutput.value[k]
    IN (message.role = "assistant" /\ message.content.typeof = "array") =>
         \A n \in 1..Len(message.content.value) :
           message.content.value[n].type = "tool-call" =>
             message.content.value[n].toolCallId \in AnsweredIds(responseMessages)

NoEmptyMessageInOutput ==
  \A k \in 1..Len(responseOutput.value) :
    Len(responseOutput.value[k].content.value) > 0

\* C7 as stated: the output holds no dangling tool-call and no message with
\* empty content, and an assistant message that is empty after stripping is
\* not in the output.
C7_Original ==
  responseOutput.done =>
    /\ NoDanglingCallInOutput
    /\ NoEmptyMessageInOutput
    /\ \A k \in 1..Len(responseMessages) :
         EmptyAfterStripping(responseMessages[k], responseMessages) =>
           responseMessages[k].id \notin IdsOf(responseOutput.value)

\* C7 amended: the output holds no dangling tool-call and no message with
\* empty content; an assistant message that is empty after stripping is
\* removed when no reasoning text is supplied, and when reasoning is
\* supplied it stays in the output holding only the appended reasoning part.
C7_DanglingCallsStripped ==
  responseOutput.done =>
    /\ NoDanglingCallInOutput
    /\ NoEmptyMessageInOutput
    /\ \A k \in 1..Len(responseMessages) :
         EmptyAfterStripping(responseMessages[k], responseMessages) =>
           IF Truthy(responseReasoning)
           THEN \E m \in 1..Len(responseOutput.value) :
                  /\ responseOutput.value[m].id = responseMessages[k].id
                  /\ responseOutput.value[m].content.value =
                       <<ReasoningPart(responseReasoning)>>
           ELSE responseMessages[k].id \notin IdsOf(responseOutput.value)

\* without reasoning, a message holding only a dangling tool-call was
\* removed, and another message lost its dangling tool-call but stayed
C7_Witness ==
  /\ responseOutput.done
  /\ ~Truthy(responseReasoning)
  /\ Len(responseMessages) = 2
  /\ responseMessages[1].content = ArrayContent(<<ToolCallPart("t1")>>)
  /\ responseMessages[2].content =
       ArrayContent(<<TextPart("hi"), ToolCallPart("t1"), ToolCallPart("t2")>>)
  /\ Len(responseOutput.value) = 1
  /\ responseOutput.value[1].id = "2"
  /\ responseOutput.value[1].content = ArrayContent(<<TextPart("hi")>>)

\* C8: in the output of sanitizeUIMessages every toolInvocation of an
\* assistant message is in state result or has a sibling in state result
\* with its toolCallId, and an assistant message with empty content whose
\* only toolInvocation is an unanswered call is not in the output.
C8_UIInvocationsResolved ==
  uiOutput.done =>
    /\ \A k \in 1..Len(uiOutput.value) :
         LET message == uiOutput.value[k]
         IN (message.role = "assistant" /\ HasInvocations(message)) =>
              \A n \in 1..Len(message.toolInvocations) :
                \/ message.toolInvocations[n].state = "result"
                \/ \E m \in 1..Len(message.toolInvocations) :
                     /\ message.toolInvocations[m].state = "result"
                     /\ message.toolInvocations[m].toolCallId =
                          message.toolInvocations[n].toolCallId
    /\ \A k \in 1..Len(uiMessages) :
         ( /\ uiMessages[k].role = "assistant"
           /\ uiMessages[k].content = ""
           /\ HasInvocations(uiMessages[k])
           /\ Len(uiMessages[k].toolInvocations) = 1
           /\ uiMessages[k].toolInvocations[1].state = "call" )
         => uiMessages[k].id \notin IdsOf(uiOutput.value)

\* a message with one unanswered call and no content was dropped, and a
\* call with a result sibling was kept
C8_Witness ==
  /\ uiOutput.done
  /\ Len(uiMessages) = 2
  /\ uiMessages[1].role = "assistant" /\ uiMessages[1].content = ""
  /\ HasInvocations(uiMessages[1])
  /\ uiMessages[1].toolInvocations = <<CallInvocation("t1")>>
  /\ HasInvocations(uiMessages[2])
  /\ uiMessages[2].toolInvocations =
       <<CallInvocation("t1"), ResultInvocation("t1", "r1")>>
  /\ IdsOf(uiOutput.value) = {"2"}
  /\ Len(uiOutput.value[1].toolInvocations) = 2

\* the stored message the last step of the fold consumed
LastStored(stored) == stored[Len(stored)]

\* index of the last assistant message of the accumulator, 0 if none
PrecedingAssistant(chat) ==
  LET idx == {k \in 1..Len(chat) : chat[k].role = "assistant"}
  IN IF idx = {} THEN 0 ELSE CHOOSE k \in idx : \A m \in idx : m <= k

PartsFor(toolMessage, toolCallId) ==
  {n \in 1..Len(toolMessage.content.value) :
     /\ toolMessage.content.value[n].type = "tool-result"
     /\ toolMessage.content.value[n].toolCallId = toolCallId}

\* C9: a stored tool message adds no UI message; each ToolInvocation of the
\* preceding assistant message whose toolCallId a tool-result part carries
\* is in state result afterwards with that part's result payload, and
\* invocations with other toolCallIds are left as they were.
C9_ToolMessageBackPatches ==
  [][ dbMessages' # dbMessages =>
        LET message == LastStored(dbMessages')
            a == PrecedingAssistant(chatMessages)
        IN /\ \A k \in 1..Len(chatMessages') : chatMessages'[k].role # "tool"
           /\ message.role # "tool" =>
                Len(chatMessages') = Len(chatMessages) + 1
           /\ message.role = "tool" =>
                /\ Len(chatMessages') = Len(chatMessages)
                /\ \A k \in 1..Len(chatMessages) :
                     /\ Len(chatMessages'[k].toolInvocations) =
                          Len(chatMessages[k].toolInvocations)
                     /\ \A n \in 1..Len(chatMessages[k].toolInvocations) :
                          LET before == chatMessages[k].toolInvocations[n]
                              after == chatMessages'[k].toolInvocations[n]
                              parts == PartsFor(message, before.toolCallId)
                          IN /\ parts = {} => after = before
                             /\ (parts # {} /\ k = a) =>
                                  /\ after.state = "result"
                                  /\ after.toolCallId = before.toolCallId
                                  /\ "result" \in DOMAIN after
                                  /\ \A p \in parts :
                                       after.result =
                                         message.content.value[p].result
    ]_<<messageVars>>

\* after a tool message answering t1, the preceding assistant message has
\* t1 in state result with the payload and t2 still in state call
C9_Witness ==
  /\ Len(dbMessages) = 2
  /\ dbMessages[2].role = "tool"
  /\ Len(chatMessages) = 1
  /\ chatMessages[1].toolInvocations =
       <<ResultInvocation("t1", "r1"), CallInvocation("t2")>>

ResultCarriesPayload(chat) ==
  \A k \in 1..Len(chat) : \A n \in 1..Len(chat[k].toolInvocations) :
    chat[k].toolInvocations[n].state = "result" =>
      "result" \in DOMAIN chat[k].toolInvocations[n]

\* C10 as stated: a ToolInvocation in state result is never changed by a
\* later stored message, and every ToolInvocation in state result carries a
\* result payload.
C10_Original ==
  [][ /\ ResultCarriesPayload(chatMessages')
      /\ \A k \in 1..Len(chatMessages) :
           \A n \in 1..Len(chatMessages[k].toolInvocations) :
             chatMessages[k].toolInvocations[n].state = "result" =>
               chatMessages'[k].toolInvocations[n] =
                 chatMessages[k].toolInvocations[n]
    ]_<<messageVars>>

\* C10 amended: a ToolInvocation in state result never returns to state
\* call and always carries a result payload; it is changed only by a later
\* tool message that holds a part with its toolCallId, which replaces the
\* payload by that part's result.
C10_ResultStaysResult ==
  [][ /\ ResultCarriesPayload(chatMessages')
      /\ \A k \in 1..Len(chatMessages) :
           \A n \in 1..Len(chatMessages[k].toolInvocations) :
             LET before == chatMessages[k].toolInvocations[n]
                 after == chatMessages'[k].toolInvocations[n]
             IN before.state = "result" =>
                  /\ after.state = "result"
                  /\ after.toolCallId = before.toolCallId
                  /\ \/ after = before
                     \/ /\ dbMessages' # dbMessages
                        /\ LastStored(dbMessages').role = "tool"
                        /\ \E p \in PartsFor(LastStored(dbMessages'),
                                             before.toolCallId) :
                             after.result =
                               LastStored(dbMessages').content.value[p].result
    ]_<<messageVars>>

\* a result reached with payload r1 was overwritten with r2 by a second
\* tool message for the same toolCallId
C10_Witness ==
  /\ Len(dbMessages) = 3
  /\ dbMessages[2].content = ArrayContent(<<ToolResultPart("t1", "r1")>>)
  /\ dbMessages[3].content = ArrayContent(<<ToolResultPart("t1", "r2")>>)
  /\ Len(chatMessages) = 1
  /\ Len(chatMessages[1].toolInvocations) >= 1
  /\ chatMessages[1].toolInvocations[1] = ResultInvocation("t1", "r2")

\* the whole sanitized batch has been folded into the displayed record
Displayed ==
  /\ responseOutput.done
  /\ Len(dbMessages) = Len(responseOutput.value)

\* C11 as stated: once a batch has passed through sanitizeResponseMessages
\* and convertToUIMessages, in whatever order its messages came, the
\* displayed record holds no tool invocation in state call.
C11_Original ==
  Displayed =>
    \A k \in 1..Len(chatMessages) :
      \A n \in 1..Len(chatMessages[k].toolInvocations) :
        chatMessages[k].toolInvocations[n].state # "call"

\* ------------------------------------------------------------------------
\* Properties of the suggestion projection
\* ------------------------------------------------------------------------
\* the leaf that holds document position pos, 0 if pos holds no character
LeafAt(doc, pos) ==
  LET ks == {k \in 1..Len(doc) :
               LeafPos(doc, k) <= pos /\ pos < LeafPos(doc, k) + Len(doc[k].text)}
  IN IF ks = {} THEN 0 ELSE CHOOSE k \in ks : TRUE

\* the text of the document between two positions
RECURSIVE TextBetween(_, _, _)
TextBetween(doc, from, to) ==
  IF from >= to THEN <<>>
  ELSE (LET k == LeafAt(doc, from)
        IN IF k = 0 THEN <<>>
           ELSE <<doc[k].text[from - LeafPos(doc, k) + 1]>>)
         \o TextBetween(doc, from + 1, to)

\* the text of the document, its blocks separated by a line break
RECURSIVE DocText(_, _)
DocText(doc, k) ==
  IF k > Len(doc) THEN <<>>
  ELSE (IF k > 1 /\ doc[k].newBlock THEN <<"\n">> ELSE <<>>)
         \o doc[k].text \o DocText(doc, k + 1)

OccursIn(doc, searchText) == indexOf(DocText(doc, 1), searchText) # -1

\* C12 as stated: every suggestion whose originalText occurs verbatim in
\* the text of the document is given a range with selectionStart <
\* selectionEnd whose text is originalText.
C12_Original ==
  projOutput.done =>
    \A k \in 1..Len(projSuggestions) :
      OccursIn(projDoc, projSuggestions[k].originalText) =>
        /\ projOutput.value[k].selectionStart < projOutput.value[k].selectionEnd
        /\ TextBetween(projDoc, projOutput.value[k].selectionStart,
                       projOutput.value[k].selectionEnd)
             = projSuggestions[k].originalText

\* C13: projectWithPositions returns one UISuggestion per suggestion, in the
\* order of the input and with the suggestion's own fields, and gives every
\* suggestion whose originalText is absent from the document
\* selectionStart = selectionEnd = 0.
C13_AbsentGetsZeroRange ==
  projOutput.done =>
    /\ Len(projOutput.value) = Len(projSuggestions)
    /\ \A k \in 1..Len(projSuggestions) :
         /\ projOutput.value[k].id = projSuggestions[k].id
         /\ projOutput.value[k].originalText = projSuggestions[k].originalText
         /\ projOutput.value[k].suggestedText = projSuggestions[k].suggestedText
         /\ ~OccursIn(projDoc, projSuggestions[k].originalText) =>
              /\ projOutput.value[k].selectionStart = 0
              /\ projOutput.value[k].selectionEnd = 0

\* two suggestions were projected, the first found in the document and the
\* second absent from it
C13_Witness ==
  /\ projOutput.done
  /\ Len(projSuggestions) = 2
  /\ projSuggestions[1].originalText = <<"a">>
  /\ projOutput.value[1].selectionStart < projOutput.value[1].selectionEnd
  /\ projSuggestions[2].originalText = <<"c">>
  /\ ~OccursIn(projDoc, <<"c">>)
  /\ projOutput.value[2].selectionEnd = 0

\* the leaves of the document that hold the search text
LeavesWith(doc, searchText) ==
  {k \in 1..Len(doc) : indexOf(doc[k].text, searchText) # -1}

\* C14 as stated: the range found for a text that occurs in the document is
\* that of its first occurrence in document order, in the first leaf that
\* holds it.
C14_Original ==
  projOutput.done =>
    \A k \in 1..Len(projSuggestions) :
      LET searchText == projSuggestions[k].originalText
          leaves == LeavesWith(projDoc, searchText)
      IN leaves # {} =>
           LET first == CHOOSE j \in leaves : \A i \in leaves : j <= i
               start == LeafPos(projDoc, first)
                          + indexOf(projDoc[first].text, searchText)
           IN /\ projOutput.value[k].selectionStart = start
              /\ projOutput.value[k].selectionEnd = start + Len(searchText)

\* ------------------------------------------------------------------------
\* Properties of applying a suggestion
\* ------------------------------------------------------------------------
DecorationsOf(id) == {d \in decorations : d.suggestionId = id}

\* C15 as stated: no editor state holds in which the decorations of a
\* suggestion being applied are gone while the text is as it was before.
C15_Original ==
  applyTrace.pc # "none" =>
    ~(DecorationsOf(applyTrace.id) = {} /\ editorDoc = applyTrace.doc)

\* the UISuggestion with this id
SuggestionWithId(id) ==
  uiSuggestions[CHOOSE k \in 1..Len(uiSuggestions) : uiSuggestions[k].id = id]

\* C16 as stated: when the highlight of the suggestion sat on a range that
\* still held originalText as its apply action began, the completed apply
\* has replaced the text of exactly that range with suggestedText.
C16_Original ==
  (/\ applyTrace.pc = "done"
   /\ applyTrace.from < applyTrace.to
   /\ SubSeq(applyTrace.doc, applyTrace.from, applyTrace.to - 1)
        = SuggestionWithId(applyTrace.id).originalText
   /\ lastTransaction.meta = {"no-debounce"})
    => editorDoc =
         SubSeq(applyTrace.doc, 1, applyTrace.from - 1)
           \o SuggestionWithId(applyTrace.id).suggestedText
           \o SubSeq(applyTrace.doc, applyTrace.to, Len(applyTrace.doc))

\* C17 as stated: the dispatch of the decoration transaction makes no save
\* call, and the rest of the apply action makes exactly one, an immediate
\* one carrying the content after the replacement.
C17_Original ==
  [][ /\ (applyTrace.pc # "removed" /\ applyTrace'.pc = "removed")
        => saveContentCalls' = saveContentCalls
      /\ (applyTrace.pc = "removed" /\ applyTrace'.pc # "removed")
        => /\ editorDoc' # editorDoc
           /\ saveContentCalls' = Append(saveContentCalls,
                [content |-> buildContentFromDocument(editorDoc'),
                 debounce |-> FALSE])
    ]_<<editorVars>>

\* ------------------------------------------------------------------------
\* Specifications
\* ------------------------------------------------------------------------
\* C18: in every state, for every requestSuggestions invocation, the
\* suggestion events it has written to the data stream are, in stream order,
\* exactly the suggestions of its buffer in the order they were consumed:
\* one event per consumed element, written in the same step that buffers it,
\* so every buffered suggestion has already been sent.
C18_BufferedWereSentInOrder ==
  \A i \in Invocations :
    task[i].op = "suggest" =>
      LET ev == EventsOf(i)
      IN /\ Len(ev) = Len(task[i].buffer)
         /\ \A k \in 1..Len(ev) :
              /\ ev[k].type = "suggestion"
              /\ ev[k].content = task[i].buffer[k]

\* two elements of one invocation have been consumed
C18_Witness ==
  \E i \in Invocations :
    /\ task[i].op = "suggest"
    /\ Len(task[i].buffer) >= 2
    /\ task[i].buffer[1].id # task[i].buffer[2].id
    /\ Len(EventsOf(i)) >= 2

\* the fields of a saved row that the streamed suggestion carries
SentPart(row) ==
  [originalText |-> row.originalText,
   suggestedText |-> row.suggestedText,
   description |-> row.description,
   id |-> row.id,
   documentId |-> row.documentId,
   isResolved |-> row.isResolved]

PersistedIds == {row.id : row \in suggestions}

C19_Calls(i) ==
  LET calls == task[i].saveSuggestionsCalls
      ev == EventsOf(i)
  IN /\ Len(calls) <= 1
     /\ task[i].pc = "streaming" => Len(calls) = 0
     /\ ~SessionHasUser => Len(calls) = 0
     /\ Len(calls) = 1 =>
          /\ Len(calls[1]) = Len(ev)
          /\ \A k \in 1..Len(ev) :
               /\ SentPart(calls[1][k]) = ev[k].content
               /\ calls[1][k].userId = session
     /\ Len(calls) = 0 =>
          \A k \in 1..Len(ev) : ev[k].content.id \notin PersistedIds

\* C19 as stated: a requestSuggestions invocation has called
\* saveSuggestions at most once, not while it still reads the element stream
\* and never without a session user id, with every suggestion it streamed,
\* in stream order; and when its stream failed or its request was aborted
\* before the call, it has written no event since and none of the
\* suggestions it sent is persisted.
C19_Original ==
  \A i \in Invocations :
    task[i].op = "suggest" =>
      /\ C19_Calls(i)
      /\ (task[i].pc = "failed" /\ Len(task[i].saveSuggestionsCalls) = 0) =>
           \A k \in 1..Len(task[i].buffer) :
             task[i].buffer[k].id \notin PersistedIds
      /\ task[i].abortedAt # NoAbort =>
           /\ Len(EventsOf(i)) = task[i].abortedAt
           /\ \A k \in 1..Len(task[i].buffer) :
                task[i].buffer[k].id \notin PersistedIds

\* the versions of every id differ in createdAt, getDocumentsById returns
\* all of them in ascending order of createdAt, and getDocumentById returns
\* the one of the greatest createdAt
C20_Ordered ==
  \A id \in DocIds :
    LET versions == VersionsOf(id)
        rows == getDocumentsById(id)
    IN /\ \A d, e \in versions : d.createdAt = e.createdAt => d = e
       /\ {rows[k] : k \in 1..Len(rows)} = versions
       /\ Len(rows) = Cardinality(versions)
       /\ \A k \in 1..(Len(rows) - 1) : rows[k].createdAt < rows[k + 1].createdAt
       /\ versions # {} =>
            /\ getDocumentById(id) \in versions
            /\ \A e \in versions : e.createdAt <= getDocumentById(id).createdAt

\* the step of a call adds one row, of the call's id and arguments and of a
\* key no stored row has, and leaves the stored rows as they are
C20_AddsOneVersion ==
  LET call == saveCalls'[1][Len(saveCalls'[1])]
  IN \E row \in documents' \ documents :
       /\ documents' = documents \cup {row}
       /\ row.id = call.id /\ row.content = call.content
       /\ row.title = call.title /\ row.kind = call.kind
       /\ row.userId = call.userId
       /\ ~KeyTaken(row.id, row.createdAt)

C25_Failed ==
  \A i \in Invocations :
    (/\ task[i].op \in {"create", "update"}
     /\ task[i].pc = "failed"
     /\ Len(SaveCallsOf(i)) >= 1) =>
      LET ev == EventsOf(i)
      IN /\ task[i].result = "threw"
         /\ Len(SaveCallsOf(i)) = 1
         /\ \A k \in 1..Len(ev) : ev[k].type # "finish"

\* the step in which the insert of a waiting saveDocument call fails throws
\* out of the invocation, with no further call, event or row
C25_Rethrow ==
  \A i \in Invocations :
    (/\ task[i].pc = "saving"
     /\ task[i]'.pc # "saving"
     /\ documents' = documents) =>
      /\ task[i]'.pc = "failed"
      /\ task[i]'.result = "threw"
      /\ UNCHANGED <<saveCalls, dataStream>>

\* C25: when the insert of saveDocument fails in a create or update flow,
\* the invocation throws in that step: saveDocument is not called again, no
\* finish event is written and no row is added; an invocation that has
\* thrown this way has made exactly one saveDocument call and has written
\* no finish event.
C25_SaveFailureRethrown ==
  /\ []C25_Failed
  /\ [][C25_Rethrow]_<<docVars>>

\* a create and an update whose saves failed, each after one call
C25_Witness ==
  \E i, j \in Invocations :
    /\ task[i].op = "create" /\ task[i].pc = "failed"
    /\ Len(SaveCallsOf(i)) = 1
    /\ VersionsOf(task[i].id) = {}
    /\ task[j].op = "update" /\ task[j].pc = "failed"
    /\ Len(SaveCallsOf(j)) = 1
    /\ VersionsOf(task[j].id) = {OldDocument}

\* a position mapped through the steps of a transaction
RECURSIVE MapThrough(_, _, _)
MapThrough(steps, pos, assoc) ==
  IF steps = <<>> THEN pos
  ELSE MapThrough(Tail(steps), MapPos(Head(steps), pos, assoc), assoc)

\* a decoration with its ends mapped through the steps
MappedDecoration(d, steps) ==
  [d EXCEPT !.from = MapThrough(steps, d.from, 1),
            !.to = IF d.type = "widget" THEN MapThrough(steps, d.from, 1)
                   ELSE MapThrough(steps, d.to, -1)]

\* the transaction deleted what the decoration sat on
RECURSIVE DeletedBy(_, _)
DeletedBy(d, steps) ==
  IF steps = <<>> THEN FALSE
  ELSE \/ IF d.type = "widget" THEN MapDeleted(Head(steps), d.from, 1)
          ELSE MapPos(Head(steps), d.from, 1) >= MapPos(Head(steps), d.to, -1)
       \/ DeletedBy(MappedDecoration(d, <<Head(steps)>>), Tail(steps))

\* a transaction was applied to the state of the plugin in this step
PluginApplied ==
  /\ transactions' = transactions + 1
  /\ editorLive

\* the suggestions that have a decoration of each type
Decorated(decos) == {<<d.suggestionId, d.type>> : d \in decos}

\* C28 as stated: a transaction with plugin metadata replaces decorations
\* and selected by the ones supplied; a transaction without it leaves
\* selected as it is, leaves every suggestion with the decorations it had,
\* no more and no fewer, and each decoration is the old one mapped through
\* the steps of the transaction.
C28_Original ==
  [][PluginApplied =>
       LET tr == lastTransaction'
       IN IF tr.plugin.set
          THEN /\ decorations' = tr.plugin.decorations
               /\ selected' = tr.plugin.selected
          ELSE /\ selected' = selected
               /\ Decorated(decorations') = Decorated(decorations)
               /\ decorations' =
                    {MappedDecoration(d, tr.steps) : d \in decorations}
    ]_<<editorVars>>

\* C28 amended: a transaction with plugin metadata replaces decorations and
\* selected by the ones supplied; a transaction without it leaves selected
\* as it is and adds no decoration: the decorations after it are the old
\* ones mapped through the steps of the transaction, except those whose
\* content the transaction deleted, which are dropped.
C28_MappedOrDropped ==
  [][PluginApplied =>
       LET tr == lastTransaction'
       IN IF tr.plugin.set
          THEN /\ decorations' = tr.plugin.decorations
               /\ selected' = tr.plugin.selected
          ELSE /\ selected' = selected
               /\ decorations' =
                    {MappedDecoration(d, tr.steps) :
                       d \in {e \in decorations : ~DeletedBy(e, tr.steps)}}
    ]_<<editorVars>>

\* a transaction without plugin metadata moved a highlight, and one dropped
\* a highlight whose text it deleted
C28_Witness ==
  /\ editorLive
  /\ transactions = 2
  /\ ~lastTransaction.plugin.set
  /\ Len(lastTransaction.steps) = 1
  /\ decorations # {}
  /\ Decorated(decorations) # Decorated(createDecorations(uiSuggestions))
  /\ \E d \in decorations : d.type = "highlight" /\
       \A k \in 1..Len(uiSuggestions) :
         uiSuggestions[k].id = d.suggestionId =>
           uiSuggestions[k].selectionStart # d.from

\* ------------------------------------------------------------------------
\* updateDocument and requestSuggestions asked for a document that is
\* missing or empty
\* ------------------------------------------------------------------------
\* a stored version whose content is the empty string
EmptyDocument ==
  [id |-> "docEmpty", createdAt |-> 0, title |-> "Empty", kind |-> "text",
   content |-> "", userId |-> "user1"]

\* identifiers the two tools are asked for: a stored document, a stored
\* document of empty content, and an identifier no row has
TargetIds == {"doc123", "docEmpty", "docMissing"}

\* no row of the id is stored, or requestSuggestions is asked and the
\* latest version has empty content
NotFoundCase(op, id) ==
  \/ VersionsOf(id) = {}
  \/ op = "suggest" /\ getDocumentById(id).content = ""

C22_Returned ==
  \A i \in Invocations :
    task[i].result = "notFound" =>
      /\ task[i].pc = "done"
      /\ EventsOf(i) = <<>>
      /\ SaveCallsOf(i) = <<>>
      /\ task[i].draft = NoDraft
      /\ task[i].buffer = <<>>
      /\ task[i].saveSuggestionsCalls = <<>>

C22_Call ==
  \A i \in Invocations :
    (/\ task[i].pc = "idle"
     /\ task[i]'.op \in {"update", "suggest"}
     /\ NotFoundCase(task[i]'.op, task[i]'.id)) =>
      /\ task[i]'.result = "notFound"
      /\ task[i]'.pc = "done"
      /\ UNCHANGED <<dataStream, documents, suggestions, saveCalls, nextId>>

LegacyDocument ==
  [id |-> "docLegacy", createdAt |-> 0, title |-> "Legacy", kind |-> "legacy",
   content |-> "legacy text", userId |-> "user1"]

\* identifiers updateDocument is asked for
HandledIds == {"doc123", "docLegacy"}

\* the kinds of the registered handlers
RegisteredKinds ==
  {documentHandlersByArtifactKind[h] :
     h \in 1..Len(documentHandlersByArtifactKind)}

\* the kind invocation i asked a handler for, the kind of the document for
\* updateDocument, has no registered handler
NoHandlerFor(i) ==
  \/ /\ task[i].op = "create"
     /\ task[i].kind \notin RegisteredKinds
  \/ /\ task[i].op = "update"
     /\ task[i].result # "notFound"
     /\ \E d \in VersionsOf(task[i].id) : d.kind \notin RegisteredKinds

\* C23: an invocation of createDocument or updateDocument whose kind no
\* registered handler has, has thrown: it has no result, no handler callback
\* ran for it (no content came back and no progress event was written), it
\* made no saveDocument call and it wrote no finish event.
C23_NoHandlerThrows ==
  \A i \in Invocations :
    NoHandlerFor(i) =>
      LET ev == EventsOf(i)
      IN /\ task[i].pc = "failed"
         /\ task[i].result = "threw"
         /\ task[i].draft = NoDraft
         /\ SaveCallsOf(i) = <<>>
         /\ \A k \in 1..Len(ev) : ev[k].type \notin {"delta", "finish"}
         /\ \A d \in VersionsOf(task[i].id) : d = LegacyDocument

\* updateDocument was asked for the document of the kind without handler,
\* next to an update that found its handler
C23_Witness ==
  \E i, j \in Invocations :
    /\ task[i].op = "update" /\ task[i].id = "docLegacy"
    /\ task[i].kind = "legacy"
    /\ task[i].pc = "failed"
    /\ Len(EventsOf(i)) = 1
    /\ task[j].op = "update" /\ task[j].id = "doc123"
    /\ task[j].pc = "done" /\ task[j].result = "ok"

\* ------------------------------------------------------------------------
\* voteMessage
\* ------------------------------------------------------------------------
ChatIds == {"chat1", "chat2"}

MessageIds == {"msg1"}

VoteTypes == {"up", "down"}

Voters == 1..MaxVoters

NoCast == "none"

IdleVoter ==
  [pc |-> "idle", chatId |-> NoId, messageId |-> NoId, type |-> NoCast,
   existingVote |-> FALSE]

\* the call up to the end of its select: existingVote is set when a row of
\* the messageId is stored, whatever its chatId
VoteSelect(v, chatId, messageId, type) ==
  /\ voteTask[v].pc = "idle"
  /\ lastCast' = [lastCast EXCEPT ![<<chatId, messageId>>] = type]
  /\ voteTask' = [voteTask EXCEPT ![v] =
       [pc |-> "selected", chatId |-> chatId, messageId |-> messageId,
        type |-> type,
        existingVote |-> (\E row \in votes : row.messageId = messageId)]]
  /\ UNCHANGED votes
  /\ UNCHANGED notVoteVars

\* update(vote).set({isUpvoted}).where(messageId and chatId)
UpdateVote(rows, chatId, messageId, type) ==
  {IF row.messageId = messageId /\ row.chatId = chatId
   THEN [row EXCEPT !.isUpvoted = (type = "up")]
   ELSE row : row \in rows}

\* the rest of the call: the update when a row was selected, the insert
\* otherwise; an insert under a key (chatId, messageId) that is taken is
\* rejected and the call throws
VoteWrite(v) ==
  /\ voteTask[v].pc = "selected"
  /\ LET call == voteTask[v]
         row == [chatId |-> call.chatId, messageId |-> call.messageId,
                 isUpvoted |-> (call.type = "up")]
     IN /\ votes' =
             IF call.existingVote
             THEN UpdateVote(votes, call.chatId, call.messageId, call.type)
             ELSE IF \E r \in votes : r.chatId = call.chatId
                                       /\ r.messageId = call.messageId
                  THEN votes
                  ELSE votes \cup {row}
        /\ voteTask' = [voteTask EXCEPT ![v] =
             [@ EXCEPT !.pc = IF ~call.existingVote /\ votes' = votes
                              THEN "threw" ELSE "returned"]]
  /\ UNCHANGED lastCast
  /\ UNCHANGED notVoteVars

\* the caller makes its next call
VoteAgain(v) ==
  /\ voteTask[v].pc \in {"returned", "threw"}
  /\ voteTask' = [voteTask EXCEPT ![v] = IdleVoter]
  /\ UNCHANGED <<votes, lastCast>>
  /\ UNCHANGED notVoteVars

VotesIdle ==
  /\ votes = {}
  /\ voteTask = [v \in Voters |-> IdleVoter]
  /\ lastCast = [pair \in ChatIds \X MessageIds |-> NoCast]

\* C21 as stated: when no voteMessage call is running, the store holds at
\* most one Vote per message, and for every (chatId, messageId) a vote was
\* cast for, the store holds a Vote of that pair whose isUpvoted is true
\* exactly when the vote cast last for the pair was 'up'.
C21_Original ==
  (\A v \in Voters : voteTask[v].pc # "selected") =>
    /\ \A messageId \in MessageIds :
         Cardinality({row \in votes : row.messageId = messageId}) <= 1
    /\ \A pair \in ChatIds \X MessageIds :
         lastCast[pair] # NoCast =>
           \E row \in votes :
             /\ row.chatId = pair[1] /\ row.messageId = pair[2]
             /\ row.isUpvoted = (lastCast[pair] = "up")

\* ------------------------------------------------------------------------
\* getDocumentTimestampByIndex
\* ------------------------------------------------------------------------
\* the documents argument: an array of rows, or no array (undefined)
NoList == [missing |-> TRUE, rows |-> <<>>]

ListOf(rows) == [missing |-> FALSE, rows |-> rows]

ListedTimes == {1, 2}

ListedDocuments ==
  {NoList} \cup
  {ListOf(rows) : rows \in UNION {[1..n -> [createdAt : ListedTimes]] :
                                    n \in 0..MaxListed}}

\* the index argument: from one below the first element to one past the
\* length of the longest array
ListedIndexes == -1..(MaxListed + 1)

ReturnedDate(value) == [threw |-> FALSE, value |-> value]

\* documents[index] is undefined: reading createdAt of it is a TypeError
ThrewTypeError == [threw |-> TRUE, value |-> 0]

getDocumentTimestampByIndex(docs, index, date) ==
  IF docs.missing THEN ReturnedDate(date)
  ELSE IF index > Len(docs.rows) THEN ReturnedDate(date)
  ELSE IF index + 1 \in 1..Len(docs.rows)
       THEN ReturnedDate(docs.rows[index + 1].createdAt)
       ELSE ThrewTypeError

TimestampStep ==
  /\ timestampOutput = NotRun
  /\ timestampOutput' =
       Returned(getDocumentTimestampByIndex(listedDocuments, listedIndex,
                                            currentDate))
  /\ UNCHANGED <<listedDocuments, listedIndex, currentDate, selectedChatModel,
                 promptOutput>>
  /\ UNCHANGED notUtilVars

\* C26 as stated: a call of getDocumentTimestampByIndex has not thrown; it
\* returned the current date when the list was missing or the index was not
\* less than the number of documents, and the createdAt of documents[index]
\* for every index from 0 to below that number.
C26_Original ==
  timestampOutput.done =>
    LET out == timestampOutput.value
    IN /\ ~out.threw
       /\ (listedDocuments.missing
             \/ listedIndex >= Len(listedDocuments.rows)) =>
            out.value = currentDate
       /\ (~listedDocuments.missing
             /\ listedIndex \in 0..(Len(listedDocuments.rows) - 1)) =>
            out.value = listedDocuments.rows[listedIndex + 1].createdAt

\* ------------------------------------------------------------------------
\* systemPrompt
\* ------------------------------------------------------------------------
regularPrompt == "You are a friendly assistant! Keep your responses concise and helpful."

artifactsPrompt == "Artifacts is a special user interface mode ..."

ChatModels == {"chat-model-reasoning", "chat-model", "other-model", ""}

\* a template string, as the sequence of its pieces
systemPrompt_Always(model) == <<regularPrompt, "\n\n", artifactsPrompt>>

systemPrompt(model) ==
  IF model = "chat-model-reasoning" THEN <<regularPrompt>>
  ELSE <<regularPrompt, "\n\n", artifactsPrompt>>

PromptStep ==
  /\ promptOutput = NotRun
  /\ promptOutput' = Returned(systemPrompt(selectedChatModel))
  /\ UNCHANGED <<listedDocuments, listedIndex, currentDate, timestampOutput,
                 selectedChatModel>>
  /\ UNCHANGED notUtilVars

UtilsIdle ==
  /\ listedDocuments = NoList
  /\ listedIndex = 0
  /\ currentDate = 0
  /\ timestampOutput = NotRun
  /\ selectedChatModel = ""
  /\ promptOutput = NotRun

FinishWritten(i) ==
  \E k \in 1..Len(dataStream) :
    dataStream[k].inv = i /\ dataStream[k].type = "finish"

\* the row the saveDocument call of invocation i inserted
VersionOf(i) == DocumentRow(LastSaveCallOf(i), task[i].savedAt)

\* C29: in create and update flows with an authenticated session, in every
\* state in which the finish event of an operation has been written, the
\* version the operation saved is stored and getDocumentById of its id
\* returns that version or one created later.
C29_PersistedBeforeFinish ==
  \A i \in Invocations :
    (/\ task[i].op \in {"create", "update"}
     /\ SessionHasUser
     /\ FinishWritten(i)) =>
      /\ Len(saveCalls[i]) >= 1
      /\ task[i].savedAt # NotSaved
      /\ VersionOf(i) \in documents
      /\ LET selectedDocument == getDocumentById(task[i].id)
         IN \/ selectedDocument = VersionOf(i)
            \/ /\ selectedDocument # NoDocument
               /\ selectedDocument.createdAt > task[i].savedAt

\* two updates of one document have finished; getDocumentById returns the
\* version of the second, which is later than the version of the first
C29_Witness ==
  \E i, j \in Invocations :
    /\ i # j /\ SessionHasUser
    /\ task[i].op = "update" /\ FinishWritten(i)
    /\ task[j].op = "update" /\ FinishWritten(j)
    /\ task[i].id = task[j].id
    /\ getDocumentById(task[i].id) = VersionOf(j)
    /\ VersionOf(j).createdAt > VersionOf(i).createdAt

\* ------------------------------------------------------------------------
\* Suggestions and the versions they are anchored to
\* ------------------------------------------------------------------------
\* the version a Suggestion row is anchored to is stored
Anchored(r) == KeyTaken(r.documentId, r.documentCreatedAt)

\* the row was built by a requestSuggestions call from the version it read
ReadBy(r, i) ==
  /\ task[i].op = "suggest"
  /\ r.documentId = task[i].id
  /\ r.documentCreatedAt = task[i].createdAt

\* C30: in every reachable state, under any interleaving of
\* requestSuggestions, saveDocument and deleteDocumentsByIdAfterTimestamp on
\* one document id, the (documentId, documentCreatedAt) of each persisted
\* suggestion identifies a stored Document version, the one the
\* requestSuggestions call read before streaming.
C30_SuggestionsAnchored ==
  \A r \in suggestions :
    /\ Anchored(r)
    /\ \E i \in Invocations : ReadBy(r, i)

\* a delete ran while suggestions for a version it was to delete were being
\* saved: the suggestions were inserted between its two statements and its
\* second statement was rejected
C30_Witness ==
  /\ deleteTask.result = "threw"
  /\ \E r \in suggestions :
       r.documentId = deleteTask.id /\ r.documentCreatedAt > deleteTask.timestamp

vars == <<docVars, editorVars, messageVars, projectionVars, voteVars, utilVars,
         deleteVars>>

DocIdle ==
  /\ session = NoUser
  /\ now = 0
  /\ nextId = 0
  /\ documents = {}
  /\ suggestions = {}
  /\ dataStream = <<>>
  /\ task = [i \in Invocations |-> IdleTask]
  /\ saveCalls = [i \in Invocations |-> <<>>]
  /\ DeleteIdle

\* the document tools of one request, writing to one data stream
Init == DocInit /\ EditorIdle /\ MessagesIdle /\ ProjectionIdle /\ VotesIdle /\ UtilsIdle

Next == DocNext

Spec == Init /\ [][Next]_vars

\* requestSuggestions invocations whose request may be aborted
InitRequestSuggestions == Init

NextRequestSuggestions ==
  \/ \E i \in Invocations, id \in DocIds : SuggestStart(i, id)
  \/ \E i \in Invocations, element \in Elements : SuggestElement(i, element)
  \/ \E i \in Invocations : RequestAbort(i)
  \/ \E i \in Invocations : SuggestStreamFail(i)
  \/ \E i \in Invocations : SuggestStreamEnd(i)
  \/ \E i \in Invocations : SaveSuggestionsOk(i)
  \/ \E i \in Invocations : SaveSuggestionsFail(i)

SpecRequestSuggestions == InitRequestSuggestions /\ [][NextRequestSuggestions]_vars

\* a store under saveDocument calls
InitVersions == Init

NextVersions == \E call \in SaveInputs, t \in 0..MaxSaves : SaveDocumentCall(call, t)

SpecVersions == InitVersions /\ [][NextVersions]_vars

\* voteMessage calls on one Vote table
InitVote == DocIdle /\ EditorIdle /\ MessagesIdle /\ ProjectionIdle /\ VotesIdle /\ UtilsIdle

NextVote ==
  \/ \E v \in Voters, chatId \in ChatIds, messageId \in MessageIds,
        type \in VoteTypes : VoteSelect(v, chatId, messageId, type)
  \/ \E v \in Voters : VoteWrite(v)
  \/ \E v \in Voters : VoteAgain(v)

SpecVote == InitVote /\ [][NextVote]_vars

\* updateDocument and requestSuggestions on a store that holds a document,
\* a document of empty content, and no row of a third id
InitNotFound ==
  /\ session \in Users \cup {NoUser}
  /\ now = 0
  /\ nextId = 0
  /\ documents = {OldDocument, EmptyDocument}
  /\ suggestions = {}
  /\ dataStream = <<>>
  /\ task = [i \in Invocations |-> IdleTask]
  /\ saveCalls = [i \in Invocations |-> <<>>]
  /\ DeleteIdle
  /\ EditorIdle /\ MessagesIdle /\ ProjectionIdle /\ VotesIdle /\ UtilsIdle

NextNotFound ==
  \/ \E i \in Invocations, id \in TargetIds : UpdateStart(i, id)
  \/ \E i \in Invocations : CallbackStream(i)
  \/ \E i \in Invocations : CallbackThrow(i)
  \/ \E i \in Invocations, draftContent \in Drafts :
       HandlerAfterCallback(i, draftContent)
  \/ \E i \in Invocations : SaveDocumentOk(i)
  \/ \E i \in Invocations : SaveDocumentFail(i)
  \/ \E i \in Invocations : WriteFinish(i)
  \/ \E i \in Invocations, id \in TargetIds : SuggestStart(i, id)
  \/ \E i \in Invocations, element \in Elements : SuggestElement(i, element)
  \/ \E i \in Invocations : SuggestStreamFail(i)
  \/ \E i \in Invocations : SuggestStreamEnd(i)
  \/ \E i \in Invocations : SaveSuggestionsOk(i)
  \/ \E i \in Invocations : SaveSuggestionsFail(i)

SpecNotFound == InitNotFound /\ [][NextNotFound]_vars

\* requestSuggestions, saveDocument and deleteDocumentsByIdAfterTimestamp
\* running on one store against one document id
AnchorIds == {"doc123"}

AnchorSaves == {call \in SaveInputs : call.id \in AnchorIds /\ call.content # ""}

InitAnchors == Init

\* the callers of requestSuggestions
AnchorCalls == 1..MaxAnchorCalls

\* the timestamps a delete is called with: the createdAt of a stored version
AnchorTimestamps(id) == {d.createdAt : d \in VersionsOf(id)}

NextAnchors ==
  \/ \E i \in AnchorCalls, id \in AnchorIds : SuggestStart(i, id)
  \/ \E i \in AnchorCalls, element \in Elements :
       Len(task[i].buffer) < MaxAnchorElements /\ SuggestElement(i, element)
  \/ \E i \in AnchorCalls : SuggestStreamFail(i)
  \/ \E i \in AnchorCalls : SuggestStreamEnd(i)
  \/ \E i \in AnchorCalls : SaveSuggestionsOk(i)
  \/ \E i \in AnchorCalls : SaveSuggestionsFail(i)
  \/ \E call \in AnchorSaves, t \in 0..MaxSaves :
       Len(saveCalls[1]) < MaxAnchorSaves /\ SaveDocumentCall(call, t)
  \/ \E id \in AnchorIds :
       \E timestamp \in AnchorTimestamps(id) : DeleteSuggestions(id, timestamp)
  \/ DeleteDocuments

SpecAnchors == InitAnchors /\ [][NextAnchors]_vars

\* createDocument and updateDocument on a store that holds a document of a
\* kind no handler is registered for
InitNoHandler ==
  /\ session \in Users \cup {NoUser}
  /\ now = 0
  /\ nextId = 0
  /\ documents = {OldDocument, LegacyDocument}
  /\ suggestions = {}
  /\ dataStream = <<>>
  /\ task = [i \in Invocations |-> IdleTask]
  /\ saveCalls = [i \in Invocations |-> <<>>]
  /\ DeleteIdle
  /\ EditorIdle /\ MessagesIdle /\ ProjectionIdle /\ VotesIdle /\ UtilsIdle

NextNoHandler ==
  \/ \E i \in Invocations, title \in Titles, kind \in RequestedKinds :
       CreateStart(i, title, kind)
  \/ \E i \in Invocations, id \in HandledIds : UpdateStart(i, id)
  \/ \E i \in Invocations : CallbackStream(i)
  \/ \E i \in Invocations : CallbackThrow(i)
  \/ \E i \in Invocations, draftContent \in Drafts :
       HandlerAfterCallback(i, draftContent)
  \/ \E i \in Invocations : SaveDocumentOk(i)
  \/ \E i \in Invocations : SaveDocumentFail(i)
  \/ \E i \in Invocations : WriteFinish(i)

SpecNoHandler == InitNoHandler /\ [][NextNoHandler]_vars

\* the utility functions applied to their arguments
InitUtils ==
  /\ DocIdle /\ EditorIdle /\ MessagesIdle /\ ProjectionIdle /\ VotesIdle
  /\ listedDocuments \in ListedDocuments
  /\ listedIndex \in ListedIndexes
  /\ currentDate = 9
  /\ timestampOutput = NotRun
  /\ selectedChatModel \in ChatModels
  /\ promptOutput = NotRun

NextUtils == TimestampStep \/ PromptStep

SpecUtils == InitUtils /\ [][NextUtils]_vars

\* the editor view
InitEditor == EditorInit /\ DocIdle /\ MessagesIdle /\ ProjectionIdle /\ VotesIdle /\ UtilsIdle

NextEditor == EditorNext

SpecEditor == InitEditor /\ [][NextEditor]_vars

\* sanitizeResponseMessages applied to a batch
InitSanitizeResponse ==
  /\ DocIdle /\ EditorIdle /\ ProjectionIdle /\ VotesIdle /\ UtilsIdle
  /\ responseMessages \in ResponseBatches
  /\ responseReasoning \in Reasonings
  /\ responseOutput = NotRun
  /\ uiMessages = <<>>
  /\ uiOutput = NotRun
  /\ dbMessages = <<>>
  /\ chatMessages = <<>>

NextSanitizeResponse == SanitizeResponse

SpecSanitizeResponse == InitSanitizeResponse /\ [][NextSanitizeResponse]_vars

\* sanitizeUIMessages applied to a batch
InitSanitizeUI ==
  /\ DocIdle /\ EditorIdle /\ ProjectionIdle /\ VotesIdle /\ UtilsIdle
  /\ responseMessages = <<>>
  /\ responseReasoning = NoReasoning
  /\ responseOutput = NotRun
  /\ uiMessages \in UIBatches
  /\ uiOutput = NotRun
  /\ dbMessages = <<>>
  /\ chatMessages = <<>>

NextSanitizeUI == SanitizeUI

SpecSanitizeUI == InitSanitizeUI /\ [][NextSanitizeUI]_vars

\* the fold of convertToUIMessages over the stored messages of a chat
InitConvert == DocIdle /\ EditorIdle /\ MessagesIdle /\ ProjectionIdle /\ VotesIdle /\ UtilsIdle

NextConvert == \E shape \in StoredShapes : ConvertStep(shape)

SpecConvert == InitConvert /\ [][NextConvert]_vars
\* a batch sanitized by sanitizeResponseMessages and then displayed by
\* convertToUIMessages
InitDisplay == InitSanitizeResponse

NextDisplay == SanitizeResponse \/ DisplayStep

SpecDisplay == InitDisplay /\ [][NextDisplay]_vars

\* projectWithPositions applied to a document and a list of suggestions
InitProject ==
  /\ DocIdle /\ EditorIdle /\ MessagesIdle /\ VotesIdle /\ UtilsIdle
  /\ projDoc \in ProjDocs
  /\ projSuggestions \in ProjSuggestions
  /\ projOutput = NotRun

NextProject == Project

SpecProject == InitProject /\ [][NextProject]_vars

\* the editor showing the decorations of projected suggestions
InitSuggest ==
  /\ DocIdle /\ MessagesIdle /\ ProjectionIdle /\ VotesIdle /\ UtilsIdle
  /\ editorLive = TRUE
  /\ editorDoc \in ShownDocs
  /\ transactions = 0
  /\ lastTransaction = NoTransaction
  /\ handleResult = NotCalled
  /\ saveContentCalls = <<>>
  /\ \E suggestionList \in ShownSuggestions :
       uiSuggestions = projectWithPositions(DocOfText(editorDoc), suggestionList)
  /\ \A k \in 1..Len(uiSuggestions) :
       uiSuggestions[k].selectionStart < uiSuggestions[k].selectionEnd
  /\ decorations = createDecorations(uiSuggestions)
  /\ selected = NoSelection
  /\ applyTrace = NoApply

NextSuggest ==
  \/ \E transaction \in UserEdits(editorDoc) : Dispatch(transaction)
  \/ \E k \in 1..MaxSuggestions : ApplyRemoveDecorations(k)
  \/ \E outcome \in {"throws", "replaces"} : ApplyReplaceText(outcome)

SpecSuggest == InitSuggest /\ [][NextSuggest]_vars
====
